---- MODULE Spec2Model ----
(***************************************************************************)
(* A model of serde_arrow's buffer primitives and of the builders and      *)
(* deserializers that sit on them:                                         *)
(*   - ArrayBufferIterator and check_supported_list_layout                 *)
(*     (internal/deserialization/utils.rs),                                *)
(*   - MutableBitBuffer, MutableOffsetBuffer and push_validity             *)
(*     (internal/serialization/utils.rs),                                  *)
(*   - FixedSizeListBuilder                                                *)
(*     (internal/serialization/fixed_size_list_builder.rs),                *)
(*   - ArrayDeserializer::new and the dispatch of ArrayDeserializer        *)
(*     (internal/deserialization/array_deserializer.rs),                   *)
(*   - Tracer::from_samples and its serializers                            *)
(*     (internal/schema/from_samples/mod.rs).                              *)
(* Every component has its own variables and its own specification; a      *)
(* specification leaves the variables of the other components at their     *)
(* idle value.                                                             *)
(***************************************************************************)
EXTENDS Integers, Sequences, FiniteSets, TLC

VARIABLES
    iter,     \* the ArrayBufferIterator: [buffer, validity, next, aborted]
    call,     \* the last call made on the iterator: [op, at, kind, val, msg]
    layout,   \* a check_supported_list_layout call: [validity, offsets, done, res]
    bits,     \* the MutableBitBuffer: [buffer, len, capacity]
    pushed,   \* the booleans pushed into bits since it was last empty
    bitCall,  \* the last call made on bits: [op, checks, kind, v, len, capacity, bytes]
    offs,     \* the MutableOffsetBuffer<i32>: [offsets, current_items, aborted]
    offCall,  \* the last call made on offs: [op, n, kind, items, count]
    rt,       \* a round trip of records through a FixedSizeList builder and
              \* the deserializer of the array it gives
    vcalls,   \* a validity buffer under push_validity / push_validity_default
    fsl,      \* a FixedSizeListBuilder under events, with the last event
    ctor,     \* an ArrayDeserializer::new call: [view, done, res]
    trace,    \* a Tracer::from_samples call, sample by sample
    disp      \* an ArrayDeserializer under events: [obj, before, method, res]

iterVars == <<iter, call>>
layoutVars == <<layout>>
bitVars == <<bits, pushed, bitCall>>
offVars == <<offs, offCall>>
rtVars == <<rt>>
valVars == <<vcalls>>
fslVars == <<fsl>>
ctorVars == <<ctor>>
traceVars == <<trace>>
dispVars == <<disp>>
vars == <<iter, call, layout, bits, pushed, bitCall, offs, offCall, rt, vcalls, fsl, ctor, trace, disp>>

(***************************************************************************)
(* Bounds of the model.                                                    *)
(***************************************************************************)
\* the longest values buffer an iterator is built over
MaxLen == 3

(***************************************************************************)
(* Bytes and bits.                                                         *)
(***************************************************************************)
RECURSIVE Pow2(_)
Pow2(k) == IF k = 0 THEN 1 ELSE 2 * Pow2(k - 1)

\* bit k (0 = least significant) of the byte b: (b & (1 << k)) == (1 << k)
TestBit(b, k) == (b \div Pow2(k)) % 2 = 1

NoValidity == [present |-> FALSE, data |-> <<>>, offset |-> 0]

\* BitsWithOffset { data, offset }
BitsWithOffset(data, offset) == [present |-> TRUE, data |-> data, offset |-> offset]

\* get_bit_buffer(data, offset, idx): the bit idx + offset of data, LSB first
\* within each byte; an index behind the last byte is an error.
get_bit_buffer(data, offset, idx) ==
    LET pos == idx + offset
    IN  IF pos \div 8 >= Len(data)
        THEN [ok |-> FALSE, bit |-> FALSE]
        ELSE [ok |-> TRUE, bit |-> TestBit(data[(pos \div 8) + 1], pos % 8)]

bitset_is_set(set, idx) == get_bit_buffer(set.data, set.offset, idx)

(***************************************************************************)
(* ArrayBufferIterator.  A method is a function of the iterator that gives *)
(* the outcome (kind, val, msg) and the cursor it leaves.  Outcomes:       *)
(*   Some / None / True / False / Unit   the Ok results,                   *)
(*   Err                                 an Err(..) with message msg,      *)
(*   Panic                               an out-of-bounds index: abort.    *)
(***************************************************************************)
Exhausted == "Exhausted deserializer"
InvalidBitset == "invalid bitset access"

Outcome(kind, val, msg, next) == [kind |-> kind, val |-> val, msg |-> msg, next |-> next]

IterNew(buffer, validity) ==
    [buffer |-> buffer, validity |-> validity, next |-> 0, aborted |-> FALSE]

\* ArrayBufferIterator::next
IterNextOf(it) ==
    IF it.next > Len(it.buffer)
    THEN Outcome("Err", 0, Exhausted, it.next)
    ELSE LET b == IF it.validity.present
                  THEN bitset_is_set(it.validity, it.next)
                  ELSE [ok |-> TRUE, bit |-> TRUE]
         IN  IF ~b.ok THEN Outcome("Err", 0, InvalidBitset, it.next)
             ELSE IF ~b.bit THEN Outcome("None", 0, "", it.next)
             \* self.buffer[self.next] with next == len is out of bounds
             ELSE IF it.next >= Len(it.buffer) THEN Outcome("Panic", 0, "", it.next)
             ELSE Outcome("Some", it.buffer[it.next + 1], "", it.next + 1)

\* ArrayBufferIterator::next_required
IterNextRequiredOf(it) ==
    LET r == IterNextOf(it)
    IN  IF r.kind = "None" THEN Outcome("Err", 0, Exhausted, r.next) ELSE r

\* ArrayBufferIterator::peek_next
IterPeekNextOf(it) ==
    IF it.next > Len(it.buffer)
    THEN Outcome("Err", 0, Exhausted, it.next)
    ELSE LET b == IF it.validity.present
                  THEN bitset_is_set(it.validity, it.next)
                  ELSE [ok |-> TRUE, bit |-> TRUE]
         IN  IF ~b.ok THEN Outcome("Err", 0, InvalidBitset, it.next)
             ELSE IF ~b.bit THEN Outcome("False", 0, "", it.next)
             ELSE Outcome("True", 0, "", it.next)

\* ArrayBufferIterator::consume_next
IterConsumeNextOf(it) == Outcome("Unit", 0, "", it.next + 1)

(***************************************************************************)
(* The iterator's state machine: a view is chosen, then its methods are    *)
(* called in any order.                                                    *)
(***************************************************************************)
\* The values are opaque to the iterator (T: Copy): slot i holds 10 * (i + 1).
Buffers == {[i \in 1..n |-> 10 * i] : n \in 0..MaxLen}

\* The validity of a view over L values: absent, or one byte read from a
\* bit offset (a sliced array); 8 - L is the slice that ends with the byte.
Validities(L) ==
    {NoValidity} \cup
    {BitsWithOffset(<<b>>, o) : b \in 0..255, o \in {0, 8 - L}}

NoCall == [op |-> "new", at |-> 0, kind |-> "Unit", val |-> 0, msg |-> ""]

IdleIter ==
    /\ iter = IterNew(<<>>, NoValidity)
    /\ call = NoCall

InitIter ==
    /\ \E buffer \in Buffers : \E validity \in Validities(Len(buffer)) :
           iter = IterNew(buffer, validity)
    /\ call = NoCall

Apply(op, r) ==
    /\ UNCHANGED <<layoutVars, bitVars, offVars, rtVars, valVars, fslVars, ctorVars, traceVars, dispVars>>
    /\ iter' = [iter EXCEPT !.next = r.next, !.aborted = (r.kind = "Panic")]
    /\ call' = [op |-> op, at |-> iter.next, kind |-> r.kind, val |-> r.val, msg |-> r.msg]

IterNext ==
    /\ ~iter.aborted
    /\ Apply("next", IterNextOf(iter))

IterNextRequired ==
    /\ ~iter.aborted
    /\ Apply("next_required", IterNextRequiredOf(iter))

IterPeekNext ==
    /\ ~iter.aborted
    /\ Apply("peek_next", IterPeekNextOf(iter))

IterConsumeNext ==
    /\ ~iter.aborted
    /\ iter.next <= MaxLen
    /\ Apply("consume_next", IterConsumeNextOf(iter))

(***************************************************************************)
(* check_supported_list_layout over i32 offsets.                           *)
(***************************************************************************)
\* the most rows of a checked list layout
MaxRows == 3
\* the largest offset of a checked list layout
MaxOffset == 2

NonEmpty == "Unsupported: list offsets must be non empty"
Monotonic == "Unsupported: list offsets are assumed to be monotonically increasing"
NullData == "Unsupported: lists with data in null values are currently not supported in deserialization"
NotUsize == "offset is not a usize"

Ok == [ok |-> TRUE, msg |-> ""]
Err(msg) == [ok |-> FALSE, msg |-> msg]

\* Offset::try_into_usize: a negative offset is no usize
try_into_usize(o) == IF o < 0 THEN [ok |-> FALSE, v |-> 0] ELSE [ok |-> TRUE, v |-> o]

\* CheckRows without its test of the null rows
RECURSIVE CheckRowsIgnoringNulls(_, _, _)
CheckRowsIgnoringNulls(validity, offsets, i) ==
    IF i >= Len(offsets) - 1 THEN Ok
    ELSE LET curr == try_into_usize(offsets[i + 1])
             next == try_into_usize(offsets[i + 2])
         IN  IF ~curr.ok \/ ~next.ok THEN Err(NotUsize)
             ELSE IF next.v < curr.v THEN Err(Monotonic)
             ELSE CheckRowsIgnoringNulls(validity, offsets, i + 1)

\* CheckRows asking for strictly increasing offsets (next <= curr fails)
RECURSIVE CheckRowsStrict(_, _, _)
CheckRowsStrict(validity, offsets, i) ==
    IF i >= Len(offsets) - 1 THEN Ok
    ELSE LET curr == try_into_usize(offsets[i + 1])
             next == try_into_usize(offsets[i + 2])
             b == IF validity.present THEN bitset_is_set(validity, i)
                  ELSE [ok |-> TRUE, bit |-> TRUE]
         IN  IF ~curr.ok \/ ~next.ok THEN Err(NotUsize)
             ELSE IF next.v <= curr.v THEN Err(Monotonic)
             ELSE IF ~b.ok THEN Err(InvalidBitset)
             ELSE IF ~b.bit /\ next.v - curr.v # 0 THEN Err(NullData)
             ELSE CheckRowsStrict(validity, offsets, i + 1)

\* the loop body of check_supported_list_layout for the rows i, i + 1, ..
RECURSIVE CheckRows(_, _, _)
CheckRows(validity, offsets, i) ==
    IF i >= Len(offsets) - 1 THEN Ok
    ELSE LET curr == try_into_usize(offsets[i + 1])
             next == try_into_usize(offsets[i + 2])
             b == IF validity.present THEN bitset_is_set(validity, i)
                  ELSE [ok |-> TRUE, bit |-> TRUE]
         IN  IF ~curr.ok \/ ~next.ok THEN Err(NotUsize)
             ELSE IF next.v < curr.v THEN Err(Monotonic)
             ELSE IF ~b.ok THEN Err(InvalidBitset)
             ELSE IF ~b.bit /\ next.v - curr.v # 0 THEN Err(NullData)
             ELSE CheckRows(validity, offsets, i + 1)

\* check_supported_list_layout
check_supported_list_layout(validity, offsets) ==
    IF Len(offsets) = 0 THEN Err(NonEmpty) ELSE CheckRows(validity, offsets, 0)

\* offsets slices of valid (non-negative) offsets, and those with a negative one
NonNegativeSlices == UNION {[1..n -> 0..MaxOffset] : n \in 0..(MaxRows + 1)}
OffsetSlices == UNION {[1..n -> -1..MaxOffset] : n \in 0..(MaxRows + 1)}

\* one validity byte with a bit for every row, read from bit 0 or from bit 1
LayoutValidities ==
    {NoValidity} \cup
    {BitsWithOffset(<<b>>, o) : b \in 0..(Pow2(MaxRows + 1) - 1), o \in {0, 1}}

IdleLayout ==
    layout = [validity |-> NoValidity, offsets |-> <<>>, done |-> FALSE, res |-> Ok]

LayoutOf(validity, offsets) ==
    [validity |-> validity, offsets |-> offsets, done |-> FALSE, res |-> Ok]

InitLayout ==
    \/ \E validity \in LayoutValidities : \E offsets \in NonNegativeSlices :
           layout = LayoutOf(validity, offsets)
    \/ \E validity \in LayoutValidities : \E offsets \in OffsetSlices \ NonNegativeSlices :
           layout = LayoutOf(validity, offsets)

CheckLayout ==
    /\ ~layout.done
    /\ layout' = [layout EXCEPT
           !.done = TRUE,
           !.res = check_supported_list_layout(layout.validity, layout.offsets)]
    /\ UNCHANGED <<iterVars, bitVars, offVars, rtVars, valVars, fslVars, ctorVars, traceVars, dispVars>>

(***************************************************************************)
(* MutableBitBuffer.  buffer is the Vec<u8>.                               *)
(***************************************************************************)
\* the most bits pushed into a bit buffer
MaxBits == 10

\* byte | (1 << k)
SetBit(byte, k) == IF TestBit(byte, k) THEN byte ELSE byte + Pow2(k)

RECURSIVE GrowEightBytes(_), Grow(_)

\* a reservation of 64 bits: 8 times { buffer.push(0); capacity += 8 }
GrowEightBytes(b) ==
    IF b.len >= b.capacity
    THEN GrowEightBytes([b EXCEPT !.buffer = b.buffer \o [i \in 1..8 |-> 0],
                                  !.capacity = b.capacity + 8 * 8])
    ELSE b

\* the while loop of push: 64 times { buffer.push(0); capacity += 8 }
Grow(b) ==
    IF b.len >= b.capacity
    THEN Grow([b EXCEPT !.buffer = b.buffer \o [i \in 1..64 |-> 0],
                        !.capacity = b.capacity + 64 * 8])
    ELSE b

\* MutableBitBuffer::default
BitBufferDefault == [buffer |-> <<>>, len |-> 0, capacity |-> 0]

\* push writing the bits of a byte from its most significant end
BitBufferPushMsbFirst(b, value) ==
    LET g == Grow(b)
        at == (g.len \div 8) + 1
    IN  [g EXCEPT !.buffer = IF value
                             THEN [g.buffer EXCEPT ![at] = SetBit(g.buffer[at], 7 - (g.len % 8))]
                             ELSE g.buffer,
                  !.len = g.len + 1]

\* MutableBitBuffer::push
BitBufferPush(b, value) ==
    LET g == Grow(b)
        at == (g.len \div 8) + 1
    IN  [g EXCEPT !.buffer = IF value
                             THEN [g.buffer EXCEPT ![at] = SetBit(g.buffer[at], g.len % 8)]
                             ELSE g.buffer,
                  !.len = g.len + 1]

\* clear with the bytes kept
BitBufferClearLen(b) == [b EXCEPT !.len = 0]

\* MutableBitBuffer::clear: *self = Self::default()
BitBufferClear(b) == BitBufferDefault

\* MutableBitBuffer::as_bool: flag = 1 << i is a u8 shifted by i, for i in
\* 0..len.  A shift by 8 or more overflows: a build with overflow checks
\* panics there, a build without them shifts by i % 8.
as_bool(b, checks) ==
    IF checks /\ b.len > 8
    THEN [kind |-> "Panic", v |-> <<>>]
    ELSE [kind |-> "Ok",
          v |-> [i \in 1..b.len |-> TestBit(b.buffer[((i - 1) \div 8) + 1], (i - 1) % 8)]]

\* the bits pushed before the model starts to watch a buffer that is close to
\* the end of its first reservation
FilledBits == 510

BitCall(op, checks, r, b) ==
    [op |-> op, checks |-> checks, kind |-> r.kind, v |-> r.v,
     len |-> b.len, capacity |-> b.capacity, bytes |-> Len(b.buffer)]

NoBitCall == BitCall("new", FALSE, [kind |-> "Ok", v |-> <<>>], BitBufferDefault)

\* the buffer after k times push(false) into a new buffer, 0 < k <= 512: the
\* first push reserved 64 zero bytes, and a push of false writes no bit
FilledWithFalse(k) == [buffer |-> [i \in 1..64 |-> 0], len |-> k, capacity |-> 64 * 8]

IdleBits ==
    /\ bits = BitBufferDefault
    /\ pushed = <<>>
    /\ bitCall = NoBitCall

\* a new buffer, or one into which FilledBits times false was pushed
InitBits ==
    /\ \/ bits = BitBufferDefault /\ pushed = <<>>
       \/ bits = FilledWithFalse(FilledBits) /\ pushed = [i \in 1..FilledBits |-> FALSE]
    /\ bitCall = NoBitCall

BitFrame ==
    UNCHANGED <<iterVars, layoutVars, offVars, rtVars, valVars, fslVars, ctorVars, traceVars, dispVars>>

BitPush ==
    /\ bitCall.kind # "Panic"
    /\ bits.len < MaxBits \/ (FilledBits <= bits.len /\ bits.len < FilledBits + MaxBits)
    /\ \E value \in BOOLEAN :
        /\ bits' = BitBufferPush(bits, value)
        /\ pushed' = Append(pushed, value)
        /\ bitCall' = BitCall("push", FALSE, [kind |-> "Ok", v |-> <<value>>], bits)
    /\ BitFrame

\* MutableBitBuffer::clear
BitClear ==
    /\ bitCall.kind # "Panic"
    /\ bits' = BitBufferClear(bits)
    /\ pushed' = <<>>
    /\ bitCall' = BitCall("clear", FALSE, [kind |-> "Ok", v |-> <<>>], bits)
    /\ BitFrame

\* MutableBitBuffer::as_bool, in a build with or without overflow checks
BitAsBool ==
    /\ bitCall.kind # "Panic"
    /\ \E checks \in BOOLEAN :
        bitCall' = BitCall("as_bool", checks, as_bool(bits, checks), bits)
    /\ UNCHANGED <<bits, pushed>>
    /\ BitFrame

(***************************************************************************)
(* MutableOffsetBuffer<i32>.  The sum current_items + n is an i32          *)
(* addition: on overflow it panics in a build with overflow checks and     *)
(* wraps around in a build without them.                                   *)
(***************************************************************************)
\* the most offsets pushed into an offset buffer
MaxPushes == 3
\* the most inc_current_items calls on an offset buffer
MaxIncs == 2

I32Max == 2147483647

\* usize arguments: a value up to i32::MAX, or one beyond it
Usize(v) == [big |-> FALSE, v |-> v]
UsizeBeyondI32 == [big |-> TRUE, v |-> 0]

\* Offset::try_form_usize for i32
try_form_usize(n) == IF n.big THEN [ok |-> FALSE, v |-> 0] ELSE [ok |-> TRUE, v |-> n.v]

\* a + b for i32 a and 0 <= b <= i32::MAX: the sum, and whether it overflowed
\* (the wrapped sum is a + b - 2^32)
I32Add(a, b) ==
    IF a > I32Max - b
    THEN [overflow |-> TRUE, v |-> ((a - I32Max) + (b - I32Max)) - 2]
    ELSE [overflow |-> FALSE, v |-> a + b]

\* MutableOffsetBuffer::default
OffsetBufferDefault(checks) ==
    [offsets |-> <<0>>, current_items |-> 0, aborted |-> FALSE, overflow_checks |-> checks]

\* MutableOffsetBuffer::len
OffsetBufferLen(o) == Len(o.offsets) - 1

\* current_items + O::try_form_usize(n)?, stored into current_items
AddItems(o, n) ==
    LET c == try_form_usize(n)
        sum == I32Add(o.current_items, c.v)
    IN  IF ~c.ok THEN [kind |-> "Err", o |-> o]
        ELSE IF sum.overflow /\ o.overflow_checks
        THEN [kind |-> "Panic", o |-> [o EXCEPT !.aborted = TRUE]]
        ELSE [kind |-> "Ok", o |-> [o EXCEPT !.current_items = sum.v]]

\* MutableOffsetBuffer::push
OffsetBufferPush(o, n) ==
    LET r == AddItems(o, n)
    IN  IF r.kind = "Ok"
        THEN [kind |-> "Ok",
              o |-> [r.o EXCEPT !.offsets = Append(r.o.offsets, r.o.current_items)]]
        ELSE r

\* MutableOffsetBuffer::push_current_items
OffsetBufferPushCurrentItems(o) ==
    [kind |-> "Ok", o |-> [o EXCEPT !.offsets = Append(o.offsets, o.current_items)]]

\* MutableOffsetBuffer::inc_current_items
OffsetBufferIncCurrentItems(o) == AddItems(o, Usize(1))

\* MutableOffsetBuffer::clear
OffsetBufferClear(o) == [kind |-> "Ok", o |-> OffsetBufferDefault(o.overflow_checks)]

NumChildren == {Usize(0), Usize(1), Usize(2), Usize(I32Max), UsizeBeyondI32}

NoOffCall == [op |-> "new", n |-> Usize(0), kind |-> "Ok", items |-> 0, count |-> 1, incs |-> 0]

IdleOffsets ==
    /\ offs = OffsetBufferDefault(TRUE)
    /\ offCall = NoOffCall

InitOffsets ==
    /\ \E checks \in BOOLEAN : offs = OffsetBufferDefault(checks)
    /\ offCall = NoOffCall

\* a call on offs: offCall keeps the call, its result, and current_items and
\* the number of offsets from before it
OffApply(op, n, r, incs) ==
    /\ UNCHANGED <<iterVars, layoutVars, bitVars, rtVars, valVars, fslVars, ctorVars, traceVars, dispVars>>
    /\ offs' = r.o
    /\ offCall' = [op |-> op, n |-> n, kind |-> r.kind, items |-> offs.current_items,
                   count |-> Len(offs.offsets), incs |-> incs]

OffPush ==
    /\ ~offs.aborted
    /\ Len(offs.offsets) <= MaxPushes
    /\ \E n \in NumChildren : OffApply("push", n, OffsetBufferPush(offs, n), offCall.incs)

OffPushCurrentItems ==
    /\ ~offs.aborted
    /\ Len(offs.offsets) <= MaxPushes
    /\ OffApply("push_current_items", Usize(0), OffsetBufferPushCurrentItems(offs),
                offCall.incs)

OffIncCurrentItems ==
    /\ ~offs.aborted
    /\ offCall.incs < MaxIncs
    /\ OffApply("inc_current_items", Usize(1), OffsetBufferIncCurrentItems(offs),
                offCall.incs + 1)

OffClear ==
    /\ ~offs.aborted
    /\ OffApply("clear", Usize(0), OffsetBufferClear(offs), 0)

(***************************************************************************)
(* Validity of a builder: Option<MutableBitBuffer>.                        *)
(***************************************************************************)
NoBitBuffer == [present |-> FALSE, buf |-> BitBufferDefault]
SomeBitBuffer(buf) == [present |-> TRUE, buf |-> buf]

\* is_nullable.then(MutableBitBuffer::default)
NewValidity(is_nullable) == IF is_nullable THEN SomeBitBuffer(BitBufferDefault) ELSE NoBitBuffer

CannotPushNull == "cannot push null for non-nullable array"

\* push_validity accepting a null when there is no validity buffer
PushValidityLenient(buffer, value) ==
    IF buffer.present
    THEN [ok |-> TRUE, msg |-> "", validity |-> SomeBitBuffer(BitBufferPush(buffer.buf, value))]
    ELSE [ok |-> TRUE, msg |-> "", validity |-> buffer]

\* push_validity: the result and the buffer it leaves
push_validity(buffer, value) ==
    IF buffer.present
    THEN [ok |-> TRUE, msg |-> "", validity |-> SomeBitBuffer(BitBufferPush(buffer.buf, value))]
    ELSE IF value THEN [ok |-> TRUE, msg |-> "", validity |-> buffer]
    ELSE [ok |-> FALSE, msg |-> CannotPushNull, validity |-> buffer]

\* push_validity_default that pushes nothing
PushValidityDefaultNothing(buffer) == buffer

\* push_validity_default
push_validity_default(buffer) ==
    IF buffer.present THEN SomeBitBuffer(BitBufferPush(buffer.buf, FALSE)) ELSE buffer

(***************************************************************************)
(* CountArray (utils::array_ext), the row count and validity of a fixed    *)
(* size list: a row is recorded, with its validity bit, when its sequence  *)
(* ends or when it is pushed as none or as default.                        *)
(***************************************************************************)
CountArrayNew(is_nullable) == [len |-> 0, validity |-> NewValidity(is_nullable)]

CountStartSeq(seq) == [ok |-> TRUE, msg |-> "", seq |-> seq]

CountPushSeqElements(seq, k) == [ok |-> TRUE, msg |-> "", seq |-> seq]

CountEndSeq(seq) ==
    LET r == push_validity(seq.validity, TRUE)
    IN  [ok |-> r.ok, msg |-> r.msg,
         seq |-> IF r.ok THEN [len |-> seq.len + 1, validity |-> r.validity] ELSE seq]

CountPushSeqNone(seq) ==
    LET r == push_validity(seq.validity, FALSE)
    IN  [ok |-> r.ok, msg |-> r.msg,
         seq |-> IF r.ok THEN [len |-> seq.len + 1, validity |-> r.validity] ELSE seq]

CountPushSeqDefault(seq) ==
    [ok |-> TRUE, msg |-> "",
     seq |-> [len |-> seq.len + 1, validity |-> push_validity_default(seq.validity)]]

(***************************************************************************)
(* The element builder: the primitive builder of an Int32 child.  none and *)
(* default push a null bit and a zero, a value pushes a valid bit and the  *)
(* value.  An element is None or Some(v).  defaults counts the             *)
(* serialize_default events the builder has received.                      *)
(***************************************************************************)
None == [some |-> FALSE, v |-> 0]
Some(v) == [some |-> TRUE, v |-> v]

IntBuilderNew(is_nullable) ==
    [validity |-> NewValidity(is_nullable), values |-> <<>>, defaults |-> 0]

IntSerializeDefault(c) ==
    [ok |-> TRUE, msg |-> "",
     c |-> [validity |-> push_validity_default(c.validity), values |-> Append(c.values, 0),
            defaults |-> c.defaults + 1]]

IntSerializeNone(c) ==
    LET r == push_validity(c.validity, FALSE)
    IN  [ok |-> r.ok, msg |-> r.msg,
         c |-> IF r.ok
               THEN [c EXCEPT !.validity = r.validity, !.values = Append(c.values, 0)]
               ELSE c]

IntSerializeI32(c, v) ==
    LET r == push_validity(c.validity, TRUE)
    IN  [ok |-> r.ok, msg |-> r.msg,
         c |-> IF r.ok
               THEN [c EXCEPT !.validity = r.validity, !.values = Append(c.values, v)]
               ELSE c]

\* value.serialize(Mut(element)) for an Option<i32> value
IntSerialize(c, value) ==
    IF value.some THEN IntSerializeI32(c, value.v) ELSE IntSerializeNone(c)

\* serialize_default, k times, stopping at the first error
RECURSIVE IntSerializeDefaults(_, _)
IntSerializeDefaults(c, k) ==
    IF k = 0 THEN [ok |-> TRUE, msg |-> "", c |-> c]
    ELSE LET r == IntSerializeDefault(c)
         IN  IF r.ok THEN IntSerializeDefaults(r.c, k - 1) ELSE r

(***************************************************************************)
(* FixedSizeListBuilder.                                                   *)
(***************************************************************************)
InvalidNumberOfElements == "Invalid number of elements for FixedSizedList"

FieldMeta(name, strategy) == [name |-> name, strategy |-> strategy]

\* FixedSizeListBuilder::new
FslNew(path, meta, element, n, is_nullable) ==
    [path |-> path, seq |-> CountArrayNew(is_nullable), meta |-> meta, n |-> n,
     current_count |-> 0, element |-> element]

\* FixedSizeListBuilder::is_nullable
FslIsNullable(b) == b.seq.validity.present

\* start that keeps the count of the row before
FslStartKeepCount(b) ==
    LET r == CountStartSeq(b.seq)
    IN  [ok |-> r.ok, msg |-> r.msg, b |-> [b EXCEPT !.seq = r.seq]]

\* FixedSizeListBuilder::start
FslStart(b) ==
    LET r == CountStartSeq(b.seq)
    IN  [ok |-> r.ok, msg |-> r.msg, b |-> [b EXCEPT !.current_count = 0, !.seq = r.seq]]

\* FixedSizeListBuilder::element
FslElement(b, value) ==
    LET counted == [b EXCEPT !.current_count = b.current_count + 1]
        r == CountPushSeqElements(counted.seq, 1)
        e == IntSerialize(counted.element, value)
    IN  IF ~r.ok THEN [ok |-> FALSE, msg |-> r.msg, b |-> counted]
        ELSE [ok |-> e.ok, msg |-> e.msg, b |-> [counted EXCEPT !.seq = r.seq, !.element = e.c]]

\* end that accepts n or more elements
FslEndAtLeastN(b) ==
    IF b.current_count < b.n
    THEN [ok |-> FALSE, msg |-> InvalidNumberOfElements, b |-> b]
    ELSE LET r == CountEndSeq(b.seq)
         IN  [ok |-> r.ok, msg |-> r.msg, b |-> [b EXCEPT !.seq = r.seq]]

\* FixedSizeListBuilder::end
FslEnd(b) ==
    IF b.current_count # b.n
    THEN [ok |-> FALSE, msg |-> InvalidNumberOfElements, b |-> b]
    ELSE LET r == CountEndSeq(b.seq)
         IN  [ok |-> r.ok, msg |-> r.msg, b |-> [b EXCEPT !.seq = r.seq]]

\* serialize_none leaving the element child alone
FslSerializeNoneOnlyRow(b) ==
    LET r == CountPushSeqNone(b.seq)
    IN  [ok |-> r.ok, msg |-> r.msg, b |-> [b EXCEPT !.seq = r.seq]]

\* serialize_none that sends the defaults whether or not the row was recorded
FslSerializeNoneDespiteError(b) ==
    LET r == CountPushSeqNone(b.seq)
        e == IntSerializeDefaults(b.element, b.n)
    IN  [ok |-> r.ok /\ e.ok, msg |-> IF r.ok THEN e.msg ELSE r.msg,
         b |-> [b EXCEPT !.seq = r.seq, !.element = e.c]]

\* FixedSizeListBuilder::serialize_none
FslSerializeNone(b) ==
    LET r == CountPushSeqNone(b.seq)
        e == IntSerializeDefaults(b.element, b.n)
    IN  IF ~r.ok THEN [ok |-> FALSE, msg |-> r.msg, b |-> b]
        ELSE [ok |-> e.ok, msg |-> e.msg, b |-> [b EXCEPT !.seq = r.seq, !.element = e.c]]

\* serialize_default leaving the element child alone
FslSerializeDefaultOnlyRow(b) ==
    LET r == CountPushSeqDefault(b.seq)
    IN  [ok |-> r.ok, msg |-> r.msg, b |-> [b EXCEPT !.seq = r.seq]]

\* FixedSizeListBuilder::serialize_default
FslSerializeDefault(b) ==
    LET r == CountPushSeqDefault(b.seq)
        e == IntSerializeDefaults(b.element, b.n)
    IN  IF ~r.ok THEN [ok |-> FALSE, msg |-> r.msg, b |-> b]
        ELSE [ok |-> e.ok, msg |-> e.msg, b |-> [b EXCEPT !.seq = r.seq, !.element = e.c]]

\* the validity of an array or view: the bytes of the builder's bit buffer
ArrayValidity(validity) ==
    IF validity.present THEN BitsWithOffset(validity.buf.buffer, 0) ELSE NoValidity

\* into_array of the Int32 element builder
IntIntoArray(c) ==
    [kind |-> "Int32", validity |-> ArrayValidity(c.validity), values |-> c.values]

\* FixedSizeListBuilder::into_array; n.try_into()? fails for an n beyond i32
FslIntoArray(b) ==
    [ok |-> b.n <= I32Max,
     array |-> [kind |-> "FixedSizeList", len |-> b.seq.len,
                validity |-> ArrayValidity(b.seq.validity), n |-> b.n, meta |-> b.meta,
                element |-> IntIntoArray(b.element)]]

(***************************************************************************)
(* ArrayDeserializer::new.  A path is the sequence of its segments:        *)
(* <<"$", "element">> is "$.element".  A field without the strategy        *)
(* metadata key has strategy "".  A timezone is the sequence of its        *)
(* characters.  The result is ok with the deserializer d, or the message   *)
(* of the error.                                                           *)
(***************************************************************************)
Strategies ==
    {"TupleAsStruct", "MapAsStruct", "NaiveStrAsDate64", "UtcStrAsDate64",
     "EnumsWithNamedFieldsAsMaps"}

\* get_strategy that takes an unknown strategy for no strategy
GetStrategyLenient(meta) ==
    [ok |-> TRUE, strategy |-> IF meta.strategy \in Strategies THEN meta.strategy ELSE ""]

\* get_strategy: the strategy of a field, parsed; an unknown one is an error
get_strategy(meta) ==
    IF meta.strategy = "" THEN [ok |-> TRUE, strategy |-> ""]
    ELSE IF meta.strategy \in Strategies THEN [ok |-> TRUE, strategy |-> meta.strategy]
    ELSE [ok |-> FALSE, strategy |-> ""]

UnknownStrategy == "unknown strategy"
UnsupportedDictionary == "Unsupported dictionary array type"
ConsecutiveTypeIds == "Only unions with consecutive type ids are currently supported"
InvalidEntries == "Invalid entries field in map array"
NotSupportedForTimestamp == "is not supported for timestamp field"
NotSupportedForDate64 == "is not supported for date64 deserializer"
UnsupportedTimezone == "Unsupported timezone"

NoDeserializer == [kind |-> "none"]

New(d) == [ok |-> TRUE, msg |-> "", d |-> d]
NewErr(msg) == [ok |-> FALSE, msg |-> msg, d |-> NoDeserializer]

\* IntegerDeserializer::new: an ArrayBufferIterator over the view
IntegerDeserializerNew(path, view) ==
    [kind |-> "I32", path |-> path, array |-> IterNew(view.values, view.validity)]

\* FixedSizeListDeserializer::new
FixedSizeListDeserializerNew(path, item, validity, n, len) ==
    [kind |-> "FixedSizeList", path |-> path, item |-> item, validity |-> validity,
     n |-> n, len |-> len, next |-> 0]

\* the views whose arm is Ok(D::X(X::new(path, ..))), and the variant of each
LeafVariant ==
    [k \in {"Null", "Boolean", "Int8", "Int16", "Int64", "UInt8", "UInt16", "UInt32",
            "UInt64", "Float16", "Float32", "Float64", "Decimal128", "Date32", "Time32",
            "Time64", "Duration", "Utf8", "LargeUtf8", "Binary", "LargeBinary"} |->
        CASE k = "Null" -> "Null" [] k = "Boolean" -> "Bool"
          [] k = "Int8" -> "I8" [] k = "Int16" -> "I16" [] k = "Int64" -> "I64"
          [] k = "UInt8" -> "U8" [] k = "UInt16" -> "U16" [] k = "UInt32" -> "U32"
          [] k = "UInt64" -> "U64" [] k = "Float16" -> "F16" [] k = "Float32" -> "F32"
          [] k = "Float64" -> "F64"
          [] OTHER -> k]

\* a deserializer that is its variant and its path
LeafDeserializerNew(variant, path) == [kind |-> variant, path |-> path]

\* Date64Deserializer::new
Date64DeserializerNew(path, unit, is_utc) ==
    [kind |-> "Date64", path |-> path, unit |-> unit, is_utc |-> is_utc]

\* str::to_lowercase over the characters of a timezone
LowerChar(c) ==
    CASE c = "U" -> "u" [] c = "T" -> "t" [] c = "C" -> "c" [] c = "Z" -> "z" [] OTHER -> c

to_lowercase(s) == [i \in 1..Len(s) |-> LowerChar(s[i])]

NoTimezone == [some |-> FALSE, tz |-> <<>>]
SomeTimezone(tz) == [some |-> TRUE, tz |-> tz]

\* is_utc_timestamp that takes every timezone for UTC
IsUtcTimestampAnyZone(timezone) == [ok |-> TRUE, msg |-> "", is_utc |-> timezone.some]

is_utc_timestamp(timezone) ==
    IF ~timezone.some THEN [ok |-> TRUE, msg |-> "", is_utc |-> FALSE]
    ELSE IF to_lowercase(timezone.tz) = <<"u", "t", "c">>
    THEN [ok |-> TRUE, msg |-> "", is_utc |-> TRUE]
    ELSE [ok |-> FALSE, msg |-> UnsupportedTimezone, is_utc |-> FALSE]

\* is_utc_date64 that rejects no strategy
IsUtcDate64AnyStrategy(strategy) ==
    [ok |-> TRUE, msg |-> "", is_utc |-> strategy # "NaiveStrAsDate64"]

is_utc_date64(strategy) ==
    IF strategy \in {"", "UtcStrAsDate64"} THEN [ok |-> TRUE, msg |-> "", is_utc |-> TRUE]
    ELSE IF strategy = "NaiveStrAsDate64" THEN [ok |-> TRUE, msg |-> "", is_utc |-> FALSE]
    ELSE [ok |-> FALSE, msg |-> NotSupportedForDate64, is_utc |-> FALSE]

\* the arms of 32 bit offsets only
DictionaryArmsUtf8Only ==
    (<<"Int8", "Utf8">> :> <<"I8", "I32">>) @@ (<<"Int16", "Utf8">> :> <<"I16", "I32">>)
    @@ (<<"Int32", "Utf8">> :> <<"I32", "I32">>) @@ (<<"Int64", "Utf8">> :> <<"I64", "I32">>)
    @@ (<<"UInt8", "Utf8">> :> <<"U8", "I32">>) @@ (<<"UInt16", "Utf8">> :> <<"U16", "I32">>)
    @@ (<<"UInt32", "Utf8">> :> <<"U32", "I32">>) @@ (<<"UInt64", "Utf8">> :> <<"U64", "I32">>)

\* the dictionary arms: (indices, values) and the key and offset type of the
\* variant D::Dictionary<key><offset> it is mapped to
DictionaryArms ==
    (<<"Int8", "Utf8">> :> <<"I8", "I32">>) @@ (<<"Int16", "Utf8">> :> <<"I16", "I32">>)
    @@ (<<"Int32", "Utf8">> :> <<"I32", "I32">>) @@ (<<"Int64", "Utf8">> :> <<"I64", "I32">>)
    @@ (<<"UInt8", "Utf8">> :> <<"U8", "I32">>) @@ (<<"UInt16", "Utf8">> :> <<"U16", "I32">>)
    @@ (<<"UInt32", "Utf8">> :> <<"U32", "I32">>) @@ (<<"UInt64", "Utf8">> :> <<"U64", "I32">>)
    @@ (<<"Int8", "LargeUtf8">> :> <<"I8", "I64">>)
    @@ (<<"Int16", "LargeUtf8">> :> <<"I16", "I64">>)
    @@ (<<"Int32", "LargeUtf8">> :> <<"I32", "I64">>)
    @@ (<<"Int64", "LargeUtf8">> :> <<"I64", "I64">>)
    @@ (<<"UInt8", "LargeUtf8">> :> <<"U8", "I64">>)
    @@ (<<"UInt16", "LargeUtf8">> :> <<"U16", "I64">>)
    @@ (<<"UInt32", "LargeUtf8">> :> <<"U32", "I64">>)
    @@ (<<"UInt64", "LargeUtf8">> :> <<"U64", "I64">>)

\* DictionaryDeserializer::new
DictionaryDeserializerNew(path, variant, keys, values) ==
    New([kind |-> "Dictionary", path |-> path, key |-> variant[1], offset |-> variant[2]])

\* ListDeserializer::new and MapDeserializer::new check the layout of the view
ListDeserializerNew(kind, path, item, offsets, validity) ==
    LET r == check_supported_list_layout(validity, offsets)
    IN  IF r.ok THEN New([kind |-> kind, path |-> path, item |-> item]) ELSE NewErr(r.msg)

MapDeserializerNew(path, keys, values, offsets, validity) ==
    LET r == check_supported_list_layout(validity, offsets)
    IN  IF r.ok THEN New([kind |-> "Map", path |-> path, keys |-> keys, values |-> values])
        ELSE NewErr(r.msg)

\* StructDeserializer::new
StructDeserializerNew(path, fields, validity, len) ==
    [kind |-> "Struct", path |-> path, fields |-> fields, len |-> len]

\* EnumDeserializer::new
EnumDeserializerNew(path, types, offsets, fields) ==
    New([kind |-> "Enum", path |-> path, fields |-> fields])

\* a test of the entries that lets a struct of two or more fields pass
ValidEntriesAtLeastTwo(element) == element.kind = "Struct" /\ Len(element.fields) >= 2

\* the entries of a map view: let ArrayView::Struct(..) = element, and
\* <[_; 2]>::try_from(entries_view.fields)
ValidEntries(element) == element.kind = "Struct" /\ Len(element.fields) = 2

\* a test of the type id that lets every type id pass
TypeIdAny(type_id, idx) == TRUE

\* usize::try_from(type_id) == Ok(idx)
TypeIdIs(type_id, idx) == type_id >= 0 /\ type_id = idx

\* ChildName: the name of a child as a path shows it.  The names of the model
\* are plain names, none of them empty
ChildName(name) == name

\* a child path that is the path of the parent
ChildPathOfParent(path, name) == path

\* format!("{path}.{child}", child = ChildName(name))
ChildPath(path, name) == Append(path, ChildName(name))

\* ArrayDeserializer::new, with the loops over the fields of a struct view and
\* of a union view from field idx on
RECURSIVE ArrayDeserializerNew(_, _, _), NewStructFields(_, _, _, _),
          NewUnionFields(_, _, _, _)

NewStructFields(path, fields, idx, acc) ==
    IF idx >= Len(fields) THEN [ok |-> TRUE, msg |-> "", fields |-> acc]
    ELSE LET f == fields[idx + 1]
             s == get_strategy(f.meta)
             child == ArrayDeserializerNew(ChildPath(path, f.meta.name), s.strategy, f.view)
         IN  IF ~s.ok THEN [ok |-> FALSE, msg |-> UnknownStrategy, fields |-> acc]
             ELSE IF ~child.ok THEN [ok |-> FALSE, msg |-> child.msg, fields |-> acc]
             ELSE NewStructFields(path, fields, idx + 1,
                                  Append(acc, [name |-> f.meta.name, d |-> child.d]))

NewUnionFields(path, fields, idx, acc) ==
    IF idx >= Len(fields) THEN [ok |-> TRUE, msg |-> "", fields |-> acc]
    ELSE LET f == fields[idx + 1]
             s == get_strategy(f.meta)
             child == ArrayDeserializerNew(ChildPath(path, f.meta.name), s.strategy, f.view)
         IN  IF ~TypeIdIs(f.type_id, idx)
             THEN [ok |-> FALSE, msg |-> ConsecutiveTypeIds, fields |-> acc]
             ELSE IF ~s.ok THEN [ok |-> FALSE, msg |-> UnknownStrategy, fields |-> acc]
             ELSE IF ~child.ok THEN [ok |-> FALSE, msg |-> child.msg, fields |-> acc]
             ELSE NewUnionFields(path, fields, idx + 1,
                                 Append(acc, [name |-> f.meta.name, d |-> child.d]))

\* a timestamp arm in which a date strategy decides between UTC and naive
NewTimestampByStrategy(path, strategy, view) ==
    LET u == is_utc_timestamp(view.timezone)
    IN  IF strategy \notin {"", "NaiveStrAsDate64", "UtcStrAsDate64"}
        THEN NewErr(NotSupportedForTimestamp)
        ELSE IF ~u.ok THEN NewErr(u.msg)
        ELSE New(Date64DeserializerNew(path, view.unit,
                                       IF strategy = "" THEN u.is_utc
                                       ELSE is_utc_date64(strategy).is_utc))

\* ArrayView::Timestamp(view) => match strategy { .. }: the arm of the two date
\* strategies and the arm of no strategy are the same call
NewTimestamp(path, strategy, view) ==
    LET u == is_utc_timestamp(view.timezone)
    IN  IF strategy \notin {"", "NaiveStrAsDate64", "UtcStrAsDate64"}
        THEN NewErr(NotSupportedForTimestamp)
        ELSE IF u.ok THEN New(Date64DeserializerNew(path, view.unit, u.is_utc))
        ELSE NewErr(u.msg)

ArrayDeserializerNew(path, strategy, view) ==
    IF view.kind = "Int32"
    THEN New(IntegerDeserializerNew(path, view))
    ELSE IF view.kind \in DOMAIN LeafVariant
    THEN New(LeafDeserializerNew(LeafVariant[view.kind], path))
    ELSE IF view.kind = "Date64"
    THEN LET u == is_utc_date64(strategy)
         IN  IF u.ok THEN New(Date64DeserializerNew(path, "Millisecond", u.is_utc))
             ELSE NewErr(u.msg)
    ELSE IF view.kind = "Timestamp"
    THEN NewTimestamp(path, strategy, view)
    ELSE IF view.kind \in {"List", "LargeList"}
    THEN LET s == get_strategy(view.meta)
             child == ArrayDeserializerNew(ChildPath(path, view.meta.name), s.strategy,
                                           view.element)
         IN  IF ~s.ok THEN NewErr(UnknownStrategy)
             ELSE IF ~child.ok THEN NewErr(child.msg)
             ELSE ListDeserializerNew(view.kind, path, child.d, view.offsets, view.validity)
    ELSE IF view.kind = "FixedSizeList"
    THEN LET s == get_strategy(view.meta)
             child == ArrayDeserializerNew(ChildPath(path, view.meta.name), s.strategy,
                                           view.element)
         IN  IF ~s.ok THEN NewErr(UnknownStrategy)
             ELSE IF ~child.ok THEN NewErr(child.msg)
             ELSE IF view.n < 0 THEN NewErr(NotUsize)
             ELSE New(FixedSizeListDeserializerNew(path, child.d, view.validity,
                                                   view.n, view.len))
    ELSE IF view.kind = "Struct"
    THEN LET r == NewStructFields(path, view.fields, 0, <<>>)
         IN  IF r.ok THEN New(StructDeserializerNew(path, r.fields, view.validity, view.len))
             ELSE NewErr(r.msg)
    ELSE IF view.kind = "Map"
    THEN IF ~ValidEntries(view.element) THEN NewErr(InvalidEntries)
         ELSE LET kf == view.element.fields[1]
                  vf == view.element.fields[2]
                  ks == get_strategy(kf.meta)
                  vs == get_strategy(vf.meta)
                  keys == ArrayDeserializerNew(ChildPath(path, kf.meta.name), ks.strategy,
                                               kf.view)
                  values == ArrayDeserializerNew(ChildPath(path, vf.meta.name), vs.strategy,
                                                 vf.view)
              IN  IF ~ks.ok THEN NewErr(UnknownStrategy)
                  ELSE IF ~keys.ok THEN NewErr(keys.msg)
                  ELSE IF ~vs.ok THEN NewErr(UnknownStrategy)
                  ELSE IF ~values.ok THEN NewErr(values.msg)
                  ELSE MapDeserializerNew(path, keys.d, values.d, view.offsets,
                                          view.validity)
    ELSE IF view.kind = "Dictionary"
    THEN IF <<view.indices.kind, view.values.kind>> \in DOMAIN DictionaryArms
         THEN DictionaryDeserializerNew(
                  path, DictionaryArms[<<view.indices.kind, view.values.kind>>],
                  view.indices, view.values)
         ELSE NewErr(UnsupportedDictionary)
    ELSE LET r == NewUnionFields(path, view.fields, 0, <<>>)
         IN  IF r.ok THEN EnumDeserializerNew(path, view.types, view.offsets, r.fields)
             ELSE NewErr(r.msg)

(***************************************************************************)
(* Reading records back.  IntegerDeserializer reads an Option<i32> by      *)
(* peek_next, then next_required for a value or consume_next for a null,   *)
(* and an i32 by next_required.  FixedSizeListDeserializer reads row by    *)
(* row: n items of the child for a valid row; for a null row it passes     *)
(* over n items of the child and gives none.                               *)
(***************************************************************************)
\* the result of a read: ok, the value read, the deserializer it leaves
Read(ok, value, d) == [ok |-> ok, value |-> value, d |-> d]

IntDeserializeI32(d) ==
    LET r == IterNextRequiredOf(d.array)
    IN  Read(r.kind = "Some", Some(r.val), [d EXCEPT !.array.next = r.next])

IntDeserializeOption(d) ==
    LET p == IterPeekNextOf(d.array)
    IN  IF p.kind = "True" THEN IntDeserializeI32(d)
        ELSE IF p.kind = "False"
        THEN Read(TRUE, None, [d EXCEPT !.array.next = IterConsumeNextOf(d.array).next])
        ELSE Read(FALSE, None, d)

\* the next k items of the child, each read as Option<i32> or as i32
RECURSIVE ReadItems(_, _, _, _)
ReadItems(d, k, optional, acc) ==
    IF k = 0 THEN Read(TRUE, acc, d)
    ELSE LET r == IF optional THEN IntDeserializeOption(d) ELSE IntDeserializeI32(d)
         IN  IF r.ok THEN ReadItems(r.d, k - 1, optional, Append(acc, r.value))
             ELSE Read(FALSE, acc, r.d)

NoneRow == [some |-> FALSE, items |-> <<>>]
SomeRow(items) == [some |-> TRUE, items |-> items]

\* FixedSizeListDeserializer: the next row as a sequence
FslDeserializeSeq(d, optional) ==
    LET r == ReadItems(d.item, d.n, optional, <<>>)
    IN  IF d.next >= d.len THEN Read(FALSE, NoneRow, d)
        ELSE Read(r.ok, SomeRow(r.value), [d EXCEPT !.item = r.d, !.next = d.next + 1])

\* FixedSizeListDeserializer: the next row as an Option of a sequence
FslDeserializeOption(d, optional) ==
    LET valid == IF d.validity.present THEN bitset_is_set(d.validity, d.next)
                 ELSE [ok |-> TRUE, bit |-> TRUE]
        skipped == ReadItems(d.item, d.n, TRUE, <<>>)
    IN  IF d.next >= d.len \/ ~valid.ok THEN Read(FALSE, NoneRow, d)
        ELSE IF valid.bit THEN FslDeserializeSeq(d, optional)
        ELSE Read(skipped.ok, NoneRow, [d EXCEPT !.item = skipped.d, !.next = d.next + 1])

(***************************************************************************)
(* A round trip: records are serialized into a FixedSizeListBuilder event  *)
(* by event, the builder is turned into its array, a deserializer is       *)
(* built over the array and the records are read back.                     *)
(***************************************************************************)
\* the most records of a round trip
MaxRecords == 2

Strides == {1, 2}
ElementValues == {0, 5}

\* the elements and rows a schema can represent
Elements(elem_nullable) ==
    {Some(v) : v \in ElementValues} \cup (IF elem_nullable THEN {None} ELSE {})

RowsOf(n, nullable, elem_nullable) ==
    {SomeRow(items) : items \in [1..n -> Elements(elem_nullable)]}
        \cup (IF nullable THEN {NoneRow} ELSE {})

RecordsOf(n, nullable, elem_nullable) ==
    UNION {[1..k -> RowsOf(n, nullable, elem_nullable)] : k \in 0..MaxRecords}

NoArray == [kind |-> "none"]

RtNew(n, nullable, elem_nullable, records) ==
    [n |-> n, nullable |-> nullable, elem_nullable |-> elem_nullable, records |-> records,
     phase |-> "build", row |-> 1, in_seq |-> FALSE, col |-> 0,
     builder |-> FslNew(<<"$">>, FieldMeta("element", ""), IntBuilderNew(elem_nullable),
                        n, nullable),
     array |-> NoArray, des |-> NoDeserializer, out |-> <<>>]

IdleRt == rt = RtNew(1, FALSE, FALSE, <<>>)

InitRt ==
    \E n \in Strides : \E nullable \in BOOLEAN : \E elem_nullable \in BOOLEAN :
        \E records \in RecordsOf(n, nullable, elem_nullable) :
            rt = RtNew(n, nullable, elem_nullable, records)

RtFrame == UNCHANGED <<iterVars, layoutVars, bitVars, offVars, valVars, fslVars, ctorVars, traceVars, dispVars>>

\* the builder after an event, or the failure of the event
RtBuilt(r, row, in_seq, col) ==
    rt' = IF r.ok
          THEN [rt EXCEPT !.builder = r.b, !.row = row, !.in_seq = in_seq, !.col = col]
          ELSE [rt EXCEPT !.builder = r.b, !.phase = "failed"]

RtBuilding == rt.phase = "build" /\ rt.row <= Len(rt.records)

\* a None record: serialize_none
RtSerializeNone ==
    /\ RtBuilding /\ ~rt.records[rt.row].some
    /\ RtBuilt(FslSerializeNone(rt.builder), rt.row + 1, FALSE, 0)
    /\ RtFrame

\* a Some(items) record: serialize_seq_start ..
RtSeqStart ==
    /\ RtBuilding /\ rt.records[rt.row].some /\ ~rt.in_seq
    /\ RtBuilt(FslStart(rt.builder), rt.row, TRUE, 0)
    /\ RtFrame

\* .. serialize_seq_element for each item ..
RtSeqElement ==
    /\ RtBuilding /\ rt.in_seq /\ rt.col < Len(rt.records[rt.row].items)
    /\ RtBuilt(FslElement(rt.builder, rt.records[rt.row].items[rt.col + 1]),
               rt.row, TRUE, rt.col + 1)
    /\ RtFrame

\* .. and serialize_seq_end
RtSeqEnd ==
    /\ RtBuilding /\ rt.in_seq /\ rt.col = Len(rt.records[rt.row].items)
    /\ RtBuilt(FslEnd(rt.builder), rt.row + 1, FALSE, 0)
    /\ RtFrame

\* into_array
RtIntoArray ==
    /\ rt.phase = "build" /\ rt.row > Len(rt.records)
    /\ rt' = IF FslIntoArray(rt.builder).ok
             THEN [rt EXCEPT !.array = FslIntoArray(rt.builder).array, !.phase = "built"]
             ELSE [rt EXCEPT !.phase = "failed"]
    /\ RtFrame

\* ArrayDeserializer::new over the view of the array
RtNewDeserializer ==
    /\ rt.phase = "built"
    /\ LET r == ArrayDeserializerNew(<<"$">>, "", rt.array)
       IN  rt' = IF r.ok
                 THEN [rt EXCEPT !.des = r.d,
                                 !.phase = IF rt.array.len = 0 THEN "done" ELSE "read"]
                 ELSE [rt EXCEPT !.phase = "failed"]
    /\ RtFrame

\* one record is read back: array.len records are read
RtDeserializeRecord ==
    /\ rt.phase = "read"
    /\ LET r == IF rt.nullable THEN FslDeserializeOption(rt.des, rt.elem_nullable)
                ELSE FslDeserializeSeq(rt.des, rt.elem_nullable)
       IN  rt' = IF r.ok
                 THEN [rt EXCEPT !.des = r.d, !.out = Append(rt.out, r.value),
                                 !.phase = IF Len(rt.out) + 1 = rt.array.len
                                           THEN "done" ELSE "read"]
                 ELSE [rt EXCEPT !.des = r.d, !.phase = "failed"]
    /\ RtFrame


(***************************************************************************)
(* The validity of a builder under push_validity / push_validity_default,  *)
(* one call per row, and its hand-over by FixedSizeListBuilder::into_array.*)
(* hist is the validity bit asked for by every call that succeeded.        *)
(***************************************************************************)
\* the most validity calls on one builder
MaxCalls == 6

ValNew(is_nullable) ==
    [nullable |-> is_nullable, validity |-> NewValidity(is_nullable), calls |-> 0,
     hist |-> <<>>, ok |-> TRUE, msg |-> "", done |-> FALSE, is_nullable |-> is_nullable,
     array |-> NoArray, last |-> [op |-> "new", value |-> TRUE]]

IdleVal == vcalls = ValNew(FALSE)

InitVal == \E is_nullable \in BOOLEAN : vcalls = ValNew(is_nullable)

\* the FixedSizeListBuilder whose seq holds the validity and one row per call
ValBuilder(v) ==
    [FslNew(<<"$">>, FieldMeta("element", ""), IntBuilderNew(FALSE), 1, v.nullable)
        EXCEPT !.seq = [len |-> Len(v.hist), validity |-> v.validity]]

ValFrame == UNCHANGED <<iterVars, layoutVars, bitVars, offVars, rtVars, fslVars, ctorVars, traceVars, dispVars>>

\* push_validity(&mut validity, value)
ValPushValidity ==
    /\ ~vcalls.done /\ vcalls.calls < MaxCalls
    /\ \E value \in BOOLEAN :
           LET r == push_validity(vcalls.validity, value)
           IN  vcalls' = [vcalls EXCEPT !.validity = r.validity, !.calls = vcalls.calls + 1,
                                  !.hist = IF r.ok THEN Append(vcalls.hist, value) ELSE vcalls.hist,
                                  !.ok = r.ok, !.msg = r.msg,
                                  !.last = [op |-> "push_validity", value |-> value]]
    /\ ValFrame

\* push_validity_default(&mut validity)
ValPushValidityDefault ==
    /\ ~vcalls.done /\ vcalls.calls < MaxCalls
    /\ vcalls' = [vcalls EXCEPT !.validity = push_validity_default(vcalls.validity),
                          !.calls = vcalls.calls + 1, !.hist = Append(vcalls.hist, FALSE),
                          !.ok = TRUE, !.msg = "",
                          !.last = [op |-> "push_validity_default", value |-> FALSE]]
    /\ ValFrame

\* is_nullable() and into_array() of the builder
ValIntoArray ==
    /\ ~vcalls.done
    /\ vcalls' = [vcalls EXCEPT !.done = TRUE, !.is_nullable = FslIsNullable(ValBuilder(vcalls)),
                          !.array = FslIntoArray(ValBuilder(vcalls)).array]
    /\ ValFrame

(***************************************************************************)
(* SimpleSerializer: the events of a builder.  An event that the builder   *)
(* does not implement falls back to the default of the trait.  An error is *)
(* the event that failed, the text of its message, the name the message    *)
(* carries and the annotations a .ctx(self) has attached to it.            *)
(***************************************************************************)
NotImplemented == "is not implemented for"
NotSupported == "is not supported for"

\* the events whose default fails and that FixedSizeListBuilder leaves alone
FailingDefaults ==
    {"serialize_bool", "serialize_char", "serialize_u8", "serialize_u16", "serialize_u32",
     "serialize_u64", "serialize_i8", "serialize_i16", "serialize_i32", "serialize_i64",
     "serialize_f32", "serialize_f64", "serialize_bytes", "serialize_str",
     "serialize_newtype_variant", "serialize_unit_struct", "serialize_unit_variant",
     "serialize_map_start", "serialize_map_key", "serialize_map_value", "serialize_map_end",
     "serialize_struct_start", "serialize_struct_field", "serialize_struct_end",
     "serialize_struct_variant_start", "serialize_tuple_variant_start"}

NoAnnotations == [field |-> <<>>, data_type |-> ""]
NoError == [event |-> "", text |-> "", name |-> "", ctx |-> NoAnnotations]

\* the result of an event: ok or the error, and the builder it leaves
EventResult(ok, err, b) == [ok |-> ok, err |-> IF ok THEN NoError ELSE err, b |-> b]

\* a failing default: fail!("<event> is not implemented for {}", self.name())
SimpleSerializerDefault(event, name, b) ==
    EventResult(FALSE,
                [event |-> event,
                 text |-> IF event \in {"serialize_default", "serialize_none"}
                          THEN NotSupported ELSE NotImplemented,
                 name |-> name, ctx |-> NoAnnotations],
                b)

\* name() of FixedSizeListBuilder
FslName == "FixedSizeListBuilder"

\* Context::annotations of FixedSizeListBuilder
FslAnnotations(b) == [field |-> b.path, data_type |-> "FixedSizeList(..)"]

\* r.ctx(self): the error of r, annotated
FslCtx(event, r) ==
    EventResult(r.ok, [event |-> event, text |-> r.msg, name |-> "",
                       ctx |-> FslAnnotations(r.b)], r.b)

\* an error that comes from the element child: this builder adds nothing to it
FslChild(event, r) ==
    EventResult(r.ok, [event |-> event, text |-> r.msg, name |-> "",
                       ctx |-> NoAnnotations], r.b)

Flavours == {"seq", "tuple", "tuple_struct"}

StartEvent(flavour) ==
    CASE flavour = "seq" -> "serialize_seq_start"
      [] flavour = "tuple" -> "serialize_tuple_start"
      [] OTHER -> "serialize_tuple_struct_start"

ElementEvent(flavour) ==
    CASE flavour = "seq" -> "serialize_seq_element"
      [] flavour = "tuple" -> "serialize_tuple_element"
      [] OTHER -> "serialize_tuple_struct_field"

EndEvent(flavour) ==
    CASE flavour = "seq" -> "serialize_seq_end"
      [] flavour = "tuple" -> "serialize_tuple_end"
      [] OTHER -> "serialize_tuple_struct_end"

\* serialize_seq_start, serialize_tuple_start, serialize_tuple_struct_start
FslSerializeStart(b, flavour) == FslCtx(StartEvent(flavour), FslStart(b))

\* serialize_seq_element, serialize_tuple_element, serialize_tuple_struct_field
FslSerializeElement(b, flavour, value) == FslChild(ElementEvent(flavour), FslElement(b, value))

\* serialize_seq_end, serialize_tuple_end, serialize_tuple_struct_end
FslSerializeEnd(b, flavour) == FslCtx(EndEvent(flavour), FslEnd(b))

\* an event without a value, as FixedSizeListBuilder answers it
FslSimpleEvent(b, event) ==
    CASE event \in {"serialize_none", "serialize_unit"} ->
             FslCtx("serialize_none", FslSerializeNone(b))
      [] event = "serialize_default" -> FslCtx("serialize_default", FslSerializeDefault(b))
      [] OTHER -> SimpleSerializerDefault(event, FslName, b)

\* a value whose serialization is one event; some(v) and newtype_struct(v) hold v
Value(event) == [event |-> event, inner |-> <<>>]
Wrapped(event, v) == [event |-> event, inner |-> <<v>>]

\* the event a value ends up as
RECURSIVE Terminal(_)
Terminal(v) == IF v.inner = <<>> THEN v.event ELSE Terminal(v.inner[1])

\* value.serialize(Mut(self)); serialize_some and serialize_newtype_struct
\* forward to it
RECURSIVE FslSerializeValue(_, _)
FslSerializeValue(b, v) ==
    IF v.inner = <<>> THEN FslSimpleEvent(b, v.event) ELSE FslSerializeValue(b, v.inner[1])

(***************************************************************************)
(* A FixedSizeListBuilder over an Int32 child under events.  The events    *)
(* come through Serializer for Mut: a start hands out the sequence, its    *)
(* element and end events need that sequence, and end consumes it.  A      *)
(* sequence that is dropped without its end is abandoned.                  *)
(*   open       the flavour of the sequence that is started, or ""         *)
(*   elems      the element events since the last start                    *)
(*   rows       the end, none and default events that succeeded            *)
(*   clean      every event so far succeeded                               *)
(*   op, res, before   the last event, its result, the builder before it   *)
(***************************************************************************)
\* the most events on one builder
MaxEvents == 5

ListStrides == {0, 1, 2}

FslStateNew(n, is_nullable, elem_nullable) ==
    [b |-> FslNew(<<"$", "list">>, FieldMeta("element", ""), IntBuilderNew(elem_nullable),
                  n, is_nullable),
     open |-> "", elems |-> 0, rows |-> 0, abandoned |-> FALSE, clean |-> TRUE, events |-> 0,
     op |-> "new", res |-> [ok |-> TRUE, err |-> NoError],
     before |-> FslNew(<<"$", "list">>, FieldMeta("element", ""),
                       IntBuilderNew(elem_nullable), n, is_nullable),
     done |-> FALSE, array |-> NoArray]

IdleFsl == fsl = FslStateNew(1, FALSE, FALSE)

InitFsl ==
    \E n \in ListStrides : \E is_nullable \in BOOLEAN : \E elem_nullable \in BOOLEAN :
        fsl = FslStateNew(n, is_nullable, elem_nullable)

FslRunning == ~fsl.done /\ fsl.events < MaxEvents

\* the state after event op with result r; an event other than the element
\* or the end of the open sequence leaves that sequence abandoned
FslApply(op, r, open, elems, row) ==
    /\ fsl' = [fsl EXCEPT !.b = r.b, !.open = open, !.elems = elems,
                          !.abandoned =
                              \/ fsl.abandoned
                              \/ /\ fsl.open # ""
                                 /\ op \notin {ElementEvent(fsl.open), EndEvent(fsl.open)},
                          !.rows = IF r.ok /\ row THEN fsl.rows + 1 ELSE fsl.rows,
                          !.clean = fsl.clean /\ r.ok, !.events = fsl.events + 1,
                          !.op = op, !.res = [ok |-> r.ok, err |-> r.err],
                          !.before = fsl.b]
    /\ UNCHANGED <<iterVars, layoutVars, bitVars, offVars, rtVars, valVars, ctorVars, traceVars, dispVars>>


\* serialize_seq / serialize_tuple / serialize_tuple_struct
FslEvStart ==
    /\ FslRunning
    /\ \E flavour \in Flavours :
           LET r == FslSerializeStart(fsl.b, flavour)
           IN  FslApply(StartEvent(flavour), r, IF r.ok THEN flavour ELSE "", 0, FALSE)

\* serialize_element / serialize_field on the sequence
FslEvElement ==
    /\ FslRunning /\ fsl.open # ""
    /\ \E value \in Elements(TRUE) :
           FslApply(ElementEvent(fsl.open), FslSerializeElement(fsl.b, fsl.open, value),
                    fsl.open, fsl.elems + 1, FALSE)

\* end of the sequence
FslEvEnd ==
    /\ FslRunning /\ fsl.open # ""
    /\ FslApply(EndEvent(fsl.open), FslSerializeEnd(fsl.b, fsl.open), "", fsl.elems, TRUE)

\* serialize_none, serialize_default
FslEvRow ==
    /\ FslRunning
    /\ \E event \in {"serialize_none", "serialize_default"} :
           FslApply(event, FslSimpleEvent(fsl.b, event), "", fsl.elems, TRUE)

\* serialize_unit
FslEvUnit ==
    /\ FslRunning
    /\ FslApply("serialize_unit", FslSimpleEvent(fsl.b, "serialize_unit"), "", fsl.elems, TRUE)

ForwardedValues ==
    LET plain == {Value(e) : e \in {"serialize_none", "serialize_unit", "serialize_bool",
                                    "serialize_str"}}
    IN  plain \cup {Wrapped("serialize_some", v) : v \in plain}

\* serialize_some(v), serialize_newtype_struct(v)
FslEvForward ==
    /\ FslRunning
    /\ \E event \in {"serialize_some", "serialize_newtype_struct"} :
       \E v \in ForwardedValues :
           FslApply(event, FslSerializeValue(fsl.b, v), "", fsl.elems,
                    Terminal(v) \in {"serialize_none", "serialize_unit"})

\* an event FixedSizeListBuilder does not implement
FslEvUnsupported ==
    /\ FslRunning
    /\ \E event \in FailingDefaults :
           FslApply(event, FslSimpleEvent(fsl.b, event), "", fsl.elems, FALSE)

\* into_array
FslEvIntoArray ==
    /\ ~fsl.done /\ FslIntoArray(fsl.b).ok
    /\ fsl' = [fsl EXCEPT !.done = TRUE, !.array = FslIntoArray(fsl.b).array,
                          !.op = "into_array", !.before = fsl.b,
                          !.res = [ok |-> TRUE, err |-> NoError]]
    /\ UNCHANGED <<iterVars, layoutVars, bitVars, offVars, rtVars, valVars, ctorVars, traceVars, dispVars>>

(***************************************************************************)
(* ArrayDeserializer::new calls: a view and the strategy of its field are  *)
(* chosen, then the deserializer is constructed at path "$".               *)
(***************************************************************************)
\* the most characters of a timezone
MaxTz == 3

\* the most fields of a struct view or of a union view
MaxFields == 3

LeafView(kind) == [kind |-> kind, validity |-> NoValidity, values |-> <<>>]

LeafViews == {LeafView(k) : k \in DOMAIN LeafVariant \cup {"Int32"}}

TzChars == {"U", "u", "T", "t", "C", "c", "Z"}

Timezones(max_tz) ==
    {NoTimezone} \cup {SomeTimezone(tz) : tz \in UNION {[1..k -> TzChars] : k \in 0..max_tz}}

TimestampView(timezone) ==
    [kind |-> "Timestamp", unit |-> "Second", timezone |-> timezone,
     validity |-> NoValidity, values |-> <<>>]

Date64View == [kind |-> "Date64", validity |-> NoValidity, values |-> <<>>]

\* a field of a struct view: its view and its meta
Field(view, meta) == [view |-> view, meta |-> meta]

\* the fields a struct view is made of: two that construct, one whose timezone
\* is not supported, one whose strategy does not parse, one whose strategy does
\* not fit its view, a Date64 without a strategy and one with a strategy
FieldChoices ==
    {Field(LeafView("Int32"), FieldMeta("a", "")),
     Field(LeafView("Utf8"), FieldMeta("b", "")),
     Field(TimestampView(SomeTimezone(<<"Z">>)), FieldMeta("c", "")),
     Field(LeafView("Int32"), FieldMeta("d", "Bogus")),
     Field(TimestampView(NoTimezone), FieldMeta("e", "TupleAsStruct")),
     Field(Date64View, FieldMeta("f", "")),
     Field(Date64View, FieldMeta("g", "NaiveStrAsDate64"))}

StructView(fields) ==
    [kind |-> "Struct", fields |-> fields, validity |-> NoValidity, len |-> 0]

StructViews(max_fields) ==
    {StructView(fields) : fields \in UNION {[1..k -> FieldChoices] : k \in 0..max_fields}}

MapView(element, offsets) ==
    [kind |-> "Map", element |-> element, offsets |-> offsets, validity |-> NoValidity]

MapViews(max_fields) ==
    {MapView(element, offsets) :
        element \in StructViews(max_fields) \cup {LeafView("Int32"), Date64View},
        offsets \in {<<>>, <<0, 1>>}}

DictionaryView(indices, values) ==
    [kind |-> "Dictionary", indices |-> indices, values |-> values]

DictionaryViews ==
    {DictionaryView(indices, values) :
        indices \in LeafViews \cup {Date64View}, values \in LeafViews \cup {Date64View}}

\* a field of a union view: its type id (an i8), its view and its meta
UnionField(type_id, f) == [type_id |-> type_id, view |-> f.view, meta |-> f.meta]

UnionFieldChoices(max_fields) ==
    {UnionField(type_id, f) :
        type_id \in -1..max_fields - 1,
        f \in {Field(LeafView("Int32"), FieldMeta("a", "")),
               Field(TimestampView(SomeTimezone(<<"Z">>)), FieldMeta("c", "")),
               Field(LeafView("Int32"), FieldMeta("d", "Bogus"))}}

DenseUnionView(fields) ==
    [kind |-> "DenseUnion", fields |-> fields, types |-> <<>>, offsets |-> <<>>]

DenseUnionViews(max_fields) ==
    {DenseUnionView(fields) :
        fields \in UNION {[1..k -> UnionFieldChoices(max_fields)] : k \in 0..max_fields}}

ListView(kind, meta, element, offsets) ==
    [kind |-> kind, meta |-> meta, element |-> element, offsets |-> offsets,
     validity |-> NoValidity]

FixedSizeListView(meta, element, n) ==
    [kind |-> "FixedSizeList", meta |-> meta, element |-> element, n |-> n, len |-> 0,
     validity |-> NoValidity]

ListViews ==
    LET elements ==
            {LeafView("Int32"), TimestampView(SomeTimezone(<<"Z">>)),
             StructView(<<Field(LeafView("Int32"), FieldMeta("d", "Bogus"))>>),
             StructView(<<Field(Date64View, FieldMeta("f", ""))>>)}
        metas == {FieldMeta("element", ""), FieldMeta("item", ""), FieldMeta("item", "Bogus")}
    IN  {ListView(kind, meta, element, offsets) :
            kind \in {"List", "LargeList"}, meta \in metas, element \in elements,
            offsets \in {<<>>, <<0, 1>>}}
        \cup {FixedSizeListView(meta, element, n) :
                meta \in metas, element \in elements, n \in {-1, 2}}

\* the calls: a timestamp or Date64 view under every strategy, the other views
\* without one
CtorCall(strategy, view) ==
    [strategy |-> strategy, view |-> view, done |-> FALSE, res |-> NewErr("")]

CtorCalls(max_tz, max_fields) ==
    {CtorCall(strategy, view) :
        strategy \in Strategies \cup {""},
        view \in {TimestampView(tz) : tz \in Timezones(max_tz)} \cup {Date64View}}
    \cup {CtorCall("", view) :
            view \in LeafViews \cup StructViews(max_fields) \cup MapViews(max_fields)
                     \cup DictionaryViews \cup DenseUnionViews(max_fields) \cup ListViews}

IdleCtor == ctor = CtorCall("", LeafView("Int32"))

InitCtor == ctor \in CtorCalls(MaxTz, MaxFields)

\* ArrayDeserializer::new("$", strategy, view)
CtorNew ==
    /\ ~ctor.done
    /\ ctor' = [ctor EXCEPT !.done = TRUE,
                            !.res = ArrayDeserializerNew(<<"$">>, ctor.strategy, ctor.view)]
    /\ UNCHANGED <<iterVars, layoutVars, bitVars, offVars, rtVars, valVars, fslVars, traceVars, dispVars>>

(***************************************************************************)
(* The dispatch of ArrayDeserializer.  The wrapper is the enum: the        *)
(* deserializer it wraps, under the variant of that deserializer.  An      *)
(* event on a concrete deserializer is left open: what it gives is a       *)
(* function of the type that receives it, of the deserializer with the     *)
(* events it has had, and of the event; a deserialize_* event is added to  *)
(* the events of the deserializer, annotate reads it only.                 *)
(***************************************************************************)
\* enum ArrayDeserializer: the variants, in the order of the declaration
Variants ==
    <<"Null", "Bool", "U8", "U16", "U32", "U64", "I8", "I16", "I32", "I64", "F16", "F32",
      "F64", "Decimal128", "Duration", "Date32", "Date64", "Time32", "Time64", "Utf8",
      "LargeUtf8", "DictionaryU8I32", "DictionaryU16I32", "DictionaryU32I32",
      "DictionaryU64I32", "DictionaryI8I32", "DictionaryI16I32", "DictionaryI32I32",
      "DictionaryI64I32", "DictionaryU8I64", "DictionaryU16I64", "DictionaryU32I64",
      "DictionaryU64I64", "DictionaryI8I64", "DictionaryI16I64", "DictionaryI32I64",
      "DictionaryI64I64", "Struct", "List", "LargeList", "FixedSizeList", "Binary",
      "LargeBinary", "FixedSizeBinary", "Map", "Enum">>

\* the variant D::Dictionary<key><offset> of a key and an offset type
DictionaryVariant ==
    (<<"U8", "I32">> :> "DictionaryU8I32") @@ (<<"U16", "I32">> :> "DictionaryU16I32")
    @@ (<<"U32", "I32">> :> "DictionaryU32I32") @@ (<<"U64", "I32">> :> "DictionaryU64I32")
    @@ (<<"I8", "I32">> :> "DictionaryI8I32") @@ (<<"I16", "I32">> :> "DictionaryI16I32")
    @@ (<<"I32", "I32">> :> "DictionaryI32I32") @@ (<<"I64", "I32">> :> "DictionaryI64I32")
    @@ (<<"U8", "I64">> :> "DictionaryU8I64") @@ (<<"U16", "I64">> :> "DictionaryU16I64")
    @@ (<<"U32", "I64">> :> "DictionaryU32I64") @@ (<<"U64", "I64">> :> "DictionaryU64I64")
    @@ (<<"I8", "I64">> :> "DictionaryI8I64") @@ (<<"I16", "I64">> :> "DictionaryI16I64")
    @@ (<<"I32", "I64">> :> "DictionaryI32I64") @@ (<<"I64", "I64">> :> "DictionaryI64I64")

\* the variant a deserializer is wrapped in
VariantOf(d) ==
    IF d.kind = "Dictionary" THEN DictionaryVariant[<<d.key, d.offset>>] ELSE d.kind

\* the events of SimpleDeserializer that ArrayDeserializer implements
DeserializeEvents ==
    {"deserialize_any", "deserialize_ignored_any", "deserialize_option", "deserialize_unit",
     "deserialize_unit_struct", "deserialize_bool", "deserialize_char", "deserialize_u8",
     "deserialize_u16", "deserialize_u32", "deserialize_u64", "deserialize_i8",
     "deserialize_i16", "deserialize_i32", "deserialize_i64", "deserialize_f32",
     "deserialize_f64", "deserialize_str", "deserialize_string", "deserialize_struct",
     "deserialize_map", "deserialize_seq", "deserialize_tuple", "deserialize_tuple_struct",
     "deserialize_identifier", "deserialize_newtype_struct", "deserialize_enum",
     "deserialize_bytes", "deserialize_byte_buf"}

\* an ArrayDeserializer: the wrapped deserializer and the events it has had,
\* each with the type that received it
Wrapper(d) == [d |-> d, events |-> <<>>]

\* what a call gives: its result and the deserializer it leaves
Called(res, obj) == [res |-> res, obj |-> obj]

\* deser.annotate(annotations) and deser.deserialize_*(..) of the concrete
\* deserializer of a variant
DeserializerCall(variant, obj, method) ==
    IF method = "annotate"
    THEN Called([by |-> variant, method |-> method, path |-> obj.d.path,
                 events |-> obj.events], obj)
    ELSE Called([by |-> variant, method |-> method, path |-> obj.d.path,
                 events |-> obj.events],
                [obj EXCEPT !.events = Append(obj.events,
                                              [by |-> variant, method |-> method])])

\* dispatch!: the arms, in the order of the macro
DispatchArms ==
    <<"Null", "Bool", "U8", "U16", "U32", "U64", "I8", "I16", "I32", "I64", "F16", "F32",
      "F64", "Decimal128", "Duration", "Date32", "Date64", "Time32", "Time64", "Utf8",
      "LargeUtf8", "Struct", "List", "FixedSizeList", "LargeList", "Binary", "LargeBinary",
      "FixedSizeBinary", "Map", "Enum", "DictionaryU8I32", "DictionaryU16I32",
      "DictionaryU32I32", "DictionaryU64I32", "DictionaryI8I32", "DictionaryI16I32",
      "DictionaryI32I32", "DictionaryI64I32", "DictionaryU8I64", "DictionaryU16I64",
      "DictionaryU32I64", "DictionaryU64I64", "DictionaryI8I64", "DictionaryI16I64",
      "DictionaryI32I64", "DictionaryI64I64">>

\* a dispatch whose dictionary arms all bind a DictionaryDeserializer of i32
\* keys and 32 bit offsets
DispatchOneDictionary(obj) ==
    IF obj.d.kind = "Dictionary" THEN "DictionaryI32I32" ELSE VariantOf(obj.d)

\* dispatch!(obj, ArrayDeserializer(deser) => expr): the first arm that matches
\* the variant of obj binds deser to what the variant wraps
dispatch(obj) ==
    LET arm == CHOOSE i \in 1..Len(DispatchArms) :
                   /\ DispatchArms[i] = VariantOf(obj.d)
                   /\ \A j \in 1..i - 1 : DispatchArms[j] # VariantOf(obj.d)
    IN  DispatchArms[arm]

\* the method of deser that each method of the wrapper calls
Forwarded == [method \in DeserializeEvents \cup {"annotate"} |-> method]

\* impl Context / impl SimpleDeserializer for ArrayDeserializer: the method of
\* deser, called on the deserializer the arm binds
ArrayDeserializerCall(obj, method) ==
    DeserializerCall(dispatch(obj), obj, Forwarded[method])

\* the most deserialize_* events of a run
MaxDispatched == 1

\* a view of every kind, the dictionary views of every pair of an index and a
\* value type among them
DispatchViews ==
    LET item == Field(LeafView("Int32"), FieldMeta("a", ""))
        text == Field(LeafView("Utf8"), FieldMeta("b", ""))
    IN  LeafViews \cup DictionaryViews
        \cup {Date64View, TimestampView(NoTimezone), StructView(<<item, text>>),
              MapView(StructView(<<text, item>>), <<0>>),
              DenseUnionView(<<UnionField(0, item)>>),
              ListView("List", FieldMeta("item", ""), LeafView("Int32"), <<0>>),
              ListView("LargeList", FieldMeta("item", ""), LeafView("Int32"), <<0>>),
              FixedSizeListView(FieldMeta("item", ""), LeafView("Int32"), 2)}

\* the deserializers ArrayDeserializer::new gives for them, and the one of a
\* FixedSizeBinary view whose FixedSizeBinaryDeserializer::new succeeded
Deserializers ==
    {ArrayDeserializerNew(<<"$">>, "", view).d :
        view \in {v \in DispatchViews : ArrayDeserializerNew(<<"$">>, "", v).ok}}
    \cup {LeafDeserializerNew("FixedSizeBinary", <<"$">>)}

DispCall(obj, before, method, res) ==
    [obj |-> obj, before |-> before, method |-> method, res |-> res]

NoResult == [by |-> "", method |-> "", path |-> <<>>, events |-> <<>>]

IdleDisp ==
    LET obj == Wrapper(LeafDeserializerNew("Null", <<"$">>))
    IN  disp = DispCall(obj, obj, "", NoResult)

InitDisp == disp \in {DispCall(Wrapper(d), Wrapper(d), "", NoResult) : d \in Deserializers}

DispFrame ==
    UNCHANGED <<iterVars, layoutVars, bitVars, offVars, rtVars, valVars, fslVars, ctorVars, traceVars>>

\* a deserialize_* event on the wrapper
DispDeserialize ==
    /\ Len(disp.obj.events) < MaxDispatched
    /\ \E method \in DeserializeEvents :
           LET r == ArrayDeserializerCall(disp.obj, method)
           IN  disp' = DispCall(r.obj, disp.obj, method, r.res)
    /\ DispFrame

\* annotate on the wrapper
DispAnnotate ==
    /\ LET r == ArrayDeserializerCall(disp.obj, "annotate")
       IN  disp' = DispCall(r.obj, disp.obj, "annotate", r.res)
    /\ DispFrame

(***************************************************************************)
(* Tracer under from_samples.  A tracer is Unknown, Primitive, List,       *)
(* Tuple, Struct, Map or Union; every tracer has its name, its path (the   *)
(* sequence of its segments) and its nullable bit.  item_type is a DataType and     *)
(* strategy "" is no strategy.  The result of an observation is ok with    *)
(* the tracer it leaves, or the error: its message, and the path and the   *)
(* type of the tracer that raised it.                                      *)
(***************************************************************************)
NoTraceError == [msg |-> "", path |-> <<>>, tracer_type |-> ""]

TraceOk(t) == [ok |-> TRUE, err |-> NoTraceError, t |-> t]

\* fail!(..) of a tracer, with its annotations
TraceErr(msg, t) ==
    [ok |-> FALSE, err |-> [msg |-> msg, path |-> t.path, tracer_type |-> t.kind], t |-> t]

NonSequence == "Cannot trace non-sequences"
MismatchedTypes == "mismatched types"
NullOnlyOrUnknown == "Encountered null only or unknown field"

\* Tracer::new
TracerNew(name, path) ==
    [kind |-> "Unknown", name |-> name, path |-> path, nullable |-> FALSE]

PrimitiveTracer(t, item_type, nullable, strategy) ==
    [kind |-> "Primitive", name |-> t.name, path |-> t.path, nullable |-> nullable,
     item_type |-> item_type, strategy |-> strategy]

\* a tracer that only ever saw unit
IsNullTracer(t) == t.kind = "Primitive" /\ t.item_type = "Null"

\* Tracer::mark_nullable
mark_nullable(t) == [t EXCEPT !.nullable = TRUE]

\* two observations of one primitive node that do not agree: a string and a
\* date, or two dates of different strategies, are a string
coerce_primitive_type(t, item_type, strategy) ==
    IF t.item_type = "Null"
    THEN TraceOk(PrimitiveTracer(t, item_type, TRUE, strategy))
    ELSE IF item_type = "Null"
    THEN TraceOk(mark_nullable(t))
    ELSE IF {t.item_type, item_type} \subseteq {"Date64", "LargeUtf8"}
    THEN TraceOk(PrimitiveTracer(t, "LargeUtf8", t.nullable, ""))
    ELSE TraceErr(MismatchedTypes, t)

\* Tracer::ensure_utf8: the node is a primitive of item_type with strategy
ensure_utf8(t, item_type, strategy) ==
    IF t.kind = "Unknown"
    THEN TraceOk(PrimitiveTracer(t, item_type, t.nullable, strategy))
    ELSE IF t.kind = "Primitive"
    THEN IF t.item_type = item_type /\ t.strategy = strategy THEN TraceOk(t)
         ELSE coerce_primitive_type(t, item_type, strategy)
    ELSE IF item_type = "Null" THEN TraceOk(mark_nullable(t))
    ELSE TraceErr(MismatchedTypes, t)

\* Tracer::ensure_primitive
ensure_primitive(t, item_type) == ensure_utf8(t, item_type, "")

\* Tracer::ensure_number, for numbers of one type
ensure_number(t, item_type) == ensure_utf8(t, item_type, "")

\* the step Unknown -> composite: Unknown adopts it, the same composite stays,
\* a node that only saw unit adopts it as nullable, another node is a conflict
EnsureComposite(t, kind, made) ==
    IF t.kind = "Unknown" THEN TraceOk(made)
    ELSE IF t.kind = kind THEN TraceOk(t)
    ELSE IF IsNullTracer(t) THEN TraceOk(mark_nullable(made))
    ELSE TraceErr(MismatchedTypes, t)

\* Tracer::ensure_list
ensure_list(t) ==
    EnsureComposite(t, "List",
        [kind |-> "List", name |-> t.name, path |-> t.path, nullable |-> t.nullable,
         item_tracer |-> TracerNew("element", Append(t.path, "element"))])

\* Tracer::ensure_tuple
ensure_tuple(t, len) ==
    EnsureComposite(t, "Tuple",
        [kind |-> "Tuple", name |-> t.name, path |-> t.path, nullable |-> t.nullable,
         field_tracers |->
             [i \in 1..len |-> TracerNew(ToString(i - 1), Append(t.path, ToString(i - 1)))]])

\* Tracer::ensure_struct
ensure_struct(t, mode) ==
    EnsureComposite(t, "Struct",
        [kind |-> "Struct", name |-> t.name, path |-> t.path, nullable |-> t.nullable,
         mode |-> mode, fields |-> <<>>, seen_samples |-> 0])

\* Tracer::ensure_map
ensure_map(t) ==
    EnsureComposite(t, "Map",
        [kind |-> "Map", name |-> t.name, path |-> t.path, nullable |-> t.nullable,
         key_tracer |-> TracerNew("key", Append(t.path, "key")),
         value_tracer |-> TracerNew("value", Append(t.path, "value"))])

\* Tracer::ensure_union
ensure_union(t) ==
    EnsureComposite(t, "Union",
        [kind |-> "Union", name |-> t.name, path |-> t.path, nullable |-> t.nullable,
         variants |-> <<>>])

VariantConflict == "conflicting names of a variant"

\* a slot of a union tracer: None, or Some of a name and a tracer
NoVariant == [some |-> FALSE, name |-> "", tracer |-> TracerNew("", <<>>)]
SomeVariant(name, tracer) == [some |-> TRUE, name |-> name, tracer |-> tracer]

\* the slots of a union tracer, with empty slots up to the slot of idx
SlotsUpTo(ut, idx) ==
    [i \in 1..(IF idx + 1 > Len(ut.variants) THEN idx + 1 ELSE Len(ut.variants)) |->
        IF i <= Len(ut.variants) THEN ut.variants[i] ELSE NoVariant]

\* UnionTracer::ensure_variant: an empty slot adopts the variant, an occupied
\* slot checks its name
ensure_variant(ut, variant_name, idx) ==
    LET slots == SlotsUpTo(ut, idx)
    IN  IF ~slots[idx + 1].some
        THEN TraceOk([ut EXCEPT !.variants =
                         [slots EXCEPT ![idx + 1] =
                             SomeVariant(variant_name,
                                         TracerNew(variant_name,
                                                   Append(ut.path, variant_name)))]])
        ELSE IF slots[idx + 1].name = variant_name THEN TraceOk(ut)
        ELSE TraceErr(VariantConflict, ut)

\* the index of the field key of a struct tracer, 0 when it has none
FieldIndex(st, key) ==
    IF \E i \in 1..Len(st.fields) : st.fields[i].name = key
    THEN CHOOSE i \in 1..Len(st.fields) : st.fields[i].name = key
    ELSE 0

\* StructTracer::ensure_field: the field is seen in this sample; a field that
\* is new after the first sample is nullable
ensure_field(st, key) ==
    IF FieldIndex(st, key) # 0
    THEN [st EXCEPT !.fields[FieldIndex(st, key)].last_seen_in_sample = st.seen_samples]
    ELSE LET t == TracerNew(key, Append(st.path, key))
         IN  [st EXCEPT !.fields =
                 Append(@, [name |-> key,
                            tracer |-> IF st.seen_samples # 0 THEN mark_nullable(t) ELSE t,
                            last_seen_in_sample |-> st.seen_samples])]

\* StructTracer::end: a field not seen in this sample is nullable
StructTracerEnd(st) ==
    [st EXCEPT !.fields =
                  [i \in 1..Len(st.fields) |->
                      IF st.fields[i].last_seen_in_sample # st.seen_samples
                      THEN [st.fields[i] EXCEPT !.tracer = mark_nullable(@)]
                      ELSE st.fields[i]],
               !.seen_samples = @ + 1]

(***************************************************************************)
(* Samples.  A string is the sequence of its parts: a date, the letter T,  *)
(* a time, a fraction, a zone, or other text.                              *)
(***************************************************************************)
Scalar(event) == [k |-> event]
StrValue(s) == [k |-> "serialize_str", s |-> s]
NoneValue == [k |-> "serialize_none"]
SomeValue(v) == [k |-> "serialize_some", v |-> v]
NewtypeValue(v) == [k |-> "serialize_newtype_struct", v |-> v]
\* the variants of an enum: the index and the name of the variant, and what
\* the variant holds
UnitVariant(index, name) == [k |-> "serialize_unit_variant", index |-> index, name |-> name]
NewtypeVariant(index, name, v) ==
    [k |-> "serialize_newtype_variant", index |-> index, name |-> name, v |-> v]
StructVariant(index, name, fields) ==
    [k |-> "serialize_struct_variant", index |-> index, name |-> name, fields |-> fields]
TupleVariant(index, name, items) ==
    [k |-> "serialize_tuple_variant", index |-> index, name |-> name, items |-> items]
SeqValue(items) == [k |-> "serialize_seq", items |-> items]
TupleValue(k, items) == [k |-> k, items |-> items]
StructValue(fields) == [k |-> "serialize_struct", fields |-> fields]
\* the calls on the SerializeMap of a map: serialize_key(v), serialize_value(v)
KeyEvent(v) == [e |-> "serialize_key", v |-> v]
ValueEvent(v) == [e |-> "serialize_value", v |-> v]
\* a map, by the calls its Serialize makes
MapOfEvents(events) == [k |-> "serialize_map", events |-> events]
\* a map of entries: for every entry its key, then its value
MapValue(entries) ==
    MapOfEvents([j \in 1..(2 * Len(entries)) |->
                    IF j % 2 = 1 THEN KeyEvent(entries[(j + 1) \div 2].key)
                    ELSE ValueEvent(entries[j \div 2].v)])
Entry(key, v) == [key |-> key, v |-> v]

NaiveDatetimes == {<<"date", "T", "time">>, <<"date", "T", "time", "frac">>}

\* chrono::matches_naive_datetime: YYYY-MM-DDTHH:MM:SS(.ffffff)?
matches_naive_datetime(s) == s \in NaiveDatetimes

\* chrono::matches_utc_datetime: the same with a trailing Z or +00:00
matches_utc_datetime(s) ==
    /\ Len(s) >= 1
    /\ SubSeq(s, 1, Len(s) - 1) \in NaiveDatetimes
    /\ s[Len(s)] \in {"Z", "+00:00"}

\* the events of a number and the DataType each one observes
NumberEvents ==
    [e \in {"serialize_i8", "serialize_i16", "serialize_i32", "serialize_i64",
            "serialize_u8", "serialize_u16", "serialize_u32", "serialize_u64",
            "serialize_f32", "serialize_f64"} |->
        CASE e = "serialize_i8" -> "Int8" [] e = "serialize_i16" -> "Int16"
          [] e = "serialize_i32" -> "Int32" [] e = "serialize_i64" -> "Int64"
          [] e = "serialize_u8" -> "UInt8" [] e = "serialize_u16" -> "UInt16"
          [] e = "serialize_u32" -> "UInt32" [] e = "serialize_u64" -> "UInt64"
          [] e = "serialize_f32" -> "Float32" [] e = "serialize_f64" -> "Float64"]

\* the other scalar events and the DataType each one observes
PrimitiveEvents ==
    [e \in {"serialize_bool", "serialize_char", "serialize_unit", "serialize_bytes",
            "serialize_unit_struct"} |->
        CASE e = "serialize_bool" -> "Boolean" [] e = "serialize_char" -> "UInt32"
          [] e = "serialize_bytes" -> "LargeBinary" [] OTHER -> "Null"]

\* serialize_str that never looks for a date
SerializeStrNoGuess(t, s, options) == ensure_utf8(t, "LargeUtf8", "")

\* TracerSerializer::serialize_str
TracerSerializeStr(t, s, options) ==
    IF options.guess_dates /\ matches_naive_datetime(s)
    THEN ensure_utf8(t, "Date64", "NaiveStrAsDate64")
    ELSE IF options.guess_dates /\ matches_utc_datetime(s)
    THEN ensure_utf8(t, "Date64", "UtcStrAsDate64")
    ELSE ensure_utf8(t, "LargeUtf8", "")

\* SerializeToString: the key of a map as a string; only a string is one.  The
\* keys of the model are strings of one part, the name of the field
SerializeToString(key) ==
    IF key.k = "serialize_str"
    THEN [ok |-> TRUE, key |-> IF key.s = <<>> THEN "" ELSE key.s[1]]
    ELSE [ok |-> FALSE, key |-> ""]

KeyNotString == "Invalid argument: cannot interpret key as string"

InvalidOperations == "invalid operations"

\* the Option<String> next_key of MapSerializer::AsStruct
NoKey == [some |-> FALSE, key |-> ""]
SomeKey(key) == [some |-> TRUE, key |-> key]

\* a look at next_key that leaves the key in it
PeekNextKey(next_key) == [some |-> next_key.some, key |-> next_key.key, rest |-> next_key]

\* next_key.take(): the key, and None left in next_key
TakeNextKey(next_key) == [some |-> next_key.some, key |-> next_key.key, rest |-> NoKey]

\* serialize_none as the event of a unit
TracerSerializeNoneAsUnit(t) == ensure_primitive(t, "Null")

\* TracerSerializer::serialize_none
TracerSerializeNone(t) == TraceOk(mark_nullable(t))

\* an end of a struct record that leaves the tracer alone
StructSerializerEndNothing(st) == TraceOk(st)

\* StructSerializer::end, and the end of MapSerializer::AsStruct
StructSerializerEnd(st) == TraceOk(StructTracerEnd(st))

\* what ensure_union_variant gives: the union tracer, and the slot of the
\* variant in it
VariantOk(ut, variant_index) ==
    [ok |-> TRUE, err |-> NoTraceError, t |-> ut, slot |-> variant_index + 1]
VariantErr(r) == [ok |-> FALSE, err |-> r.err, t |-> r.t, slot |-> 0]

\* ensure_union_variant that takes the slot as it is, whatever its name
EnsureUnionVariantAnyName(t, variant_name, variant_index) ==
    LET u == ensure_union(t)
        slots == SlotsUpTo(u.t, variant_index)
        v == ensure_variant(u.t, IF slots[variant_index + 1].some
                                 THEN slots[variant_index + 1].name
                                 ELSE variant_name, variant_index)
    IN  IF ~u.ok THEN VariantErr(u)
        ELSE IF ~v.ok THEN VariantErr(v)
        ELSE VariantOk(v.t, variant_index)

\* TracerSerializer::ensure_union_variant: the tracer is a union, the slot of
\* variant_index holds variant_name; gives tracer.variants[variant_index]
ensure_union_variant(t, variant_name, variant_index) ==
    LET u == ensure_union(t)
        v == ensure_variant(u.t, variant_name, variant_index)
    IN  IF ~u.ok THEN VariantErr(u)
        ELSE IF ~v.ok THEN VariantErr(v)
        ELSE VariantOk(v.t, variant_index)

VariantEvents ==
    {"serialize_unit_variant", "serialize_newtype_variant", "serialize_struct_variant",
     "serialize_tuple_variant"}

RECURSIVE TracerSerialize(_, _, _), ListSerializer(_, _, _, _), TupleSerializer(_, _, _, _),
          StructSerializer(_, _, _, _), MapAsStruct(_, _, _, _, _), MapAsMap(_, _, _, _),
          TupleSerializerFirstField(_, _, _, _), SerializeVariant(_, _, _)

\* a list serializer that observes no element
ListSerializerNothing(lt, items, i, options) == TraceOk(lt)

\* ListSerializer: every element into the item tracer, from element i on
ListSerializer(lt, items, i, options) ==
    IF i > Len(items) THEN TraceOk(lt)
    ELSE LET r == TracerSerialize(lt.item_tracer, items[i], options)
         IN  IF ~r.ok THEN [r EXCEPT !.t = lt]
             ELSE ListSerializer([lt EXCEPT !.item_tracer = r.t], items, i + 1, options)

\* a tuple serializer that never advances its position
TupleSerializerFirstField(tt, items, i, options) ==
    IF i > Len(items) THEN TraceOk(tt)
    ELSE LET r == TracerSerialize(tt.field_tracers[1], items[i], options)
         IN  IF ~r.ok THEN [r EXCEPT !.t = tt]
             ELSE TupleSerializerFirstField([tt EXCEPT !.field_tracers[1] = r.t], items,
                                            i + 1, options)

\* TupleSerializer: the element at position pos into field_tracer(pos)
TupleSerializer(tt, items, i, options) ==
    IF i > Len(items) THEN TraceOk(tt)
    ELSE LET r == TracerSerialize(tt.field_tracers[i], items[i], options)
         IN  IF ~r.ok THEN [r EXCEPT !.t = tt]
             ELSE TupleSerializer([tt EXCEPT !.field_tracers[i] = r.t], items, i + 1, options)

\* StructSerializer: serialize_field for every field, then end
StructSerializer(st, fields, i, options) ==
    IF i > Len(fields) THEN StructSerializerEnd(st)
    ELSE LET s1 == ensure_field(st, fields[i].key)
             idx == FieldIndex(s1, fields[i].key)
             r == TracerSerialize(s1.fields[idx].tracer, fields[i].v, options)
         IN  IF ~r.ok THEN [r EXCEPT !.t = st]
             ELSE StructSerializer([s1 EXCEPT !.fields[idx].tracer = r.t], fields, i + 1,
                                   options)

\* MapSerializer::AsStruct: serialize_key keeps the key as a string in next_key,
\* serialize_value takes it as the name of the field of the value, end is the
\* end of the record
MapAsStruct(st, next_key, events, i, options) ==
    IF i > Len(events) THEN StructSerializerEnd(st)
    ELSE IF events[i].e = "serialize_key"
    THEN LET key == SerializeToString(events[i].v)
         IN  IF ~key.ok THEN [ok |-> FALSE, t |-> st,
                              err |-> [msg |-> KeyNotString, path |-> <<>>,
                                       tracer_type |-> ""]]
             ELSE MapAsStruct(st, SomeKey(key.key), events, i + 1, options)
    ELSE LET taken == TakeNextKey(next_key)
             s1 == ensure_field(st, taken.key)
             idx == FieldIndex(s1, taken.key)
             r == TracerSerialize(s1.fields[idx].tracer, events[i].v, options)
         IN  IF ~taken.some THEN [ok |-> FALSE, t |-> st,
                                  err |-> [msg |-> InvalidOperations, path |-> <<>>,
                                           tracer_type |-> ""]]
             ELSE IF ~r.ok THEN [r EXCEPT !.t = st]
             ELSE MapAsStruct([s1 EXCEPT !.fields[idx].tracer = r.t], taken.rest, events,
                              i + 1, options)

\* MapSerializer::AsMap: keys into the key tracer, values into the value tracer
MapAsMap(mt, events, i, options) ==
    IF i > Len(events) THEN TraceOk(mt)
    ELSE IF events[i].e = "serialize_key"
    THEN LET k == TracerSerialize(mt.key_tracer, events[i].v, options)
         IN  IF ~k.ok THEN [k EXCEPT !.t = mt]
             ELSE MapAsMap([mt EXCEPT !.key_tracer = k.t], events, i + 1, options)
    ELSE LET v == TracerSerialize(mt.value_tracer, events[i].v, options)
         IN  IF ~v.ok THEN [v EXCEPT !.t = mt]
             ELSE MapAsMap([mt EXCEPT !.value_tracer = v.t], events, i + 1, options)

\* serialize_unit_variant, serialize_newtype_variant, serialize_struct_variant
\* and serialize_tuple_variant: a unit variant observes Null on the tracer of
\* the variant, the others serialize what they hold into it
SerializeVariant(t, v, options) ==
    LET u == ensure_union_variant(t, v.name, v.index)
        variant == u.t.variants[u.slot]
        r == IF v.k = "serialize_unit_variant" THEN ensure_primitive(variant.tracer, "Null")
             ELSE IF v.k = "serialize_newtype_variant"
             THEN TracerSerialize(variant.tracer, v.v, options)
             ELSE IF v.k = "serialize_struct_variant"
             THEN LET e == ensure_struct(variant.tracer, "Struct")
                  IN  IF e.ok THEN StructSerializer(e.t, v.fields, 1, options) ELSE e
             ELSE LET e == ensure_tuple(variant.tracer, Len(v.items))
                  IN  IF e.ok THEN TupleSerializer(e.t, v.items, 1, options) ELSE e
    IN  IF ~u.ok THEN [ok |-> FALSE, err |-> u.err, t |-> t]
        ELSE IF ~r.ok THEN [r EXCEPT !.t = t]
        ELSE TraceOk([u.t EXCEPT !.variants[u.slot].tracer = r.t])

\* value.serialize(TracerSerializer(t)): the events of one value on a tracer
TracerSerialize(t, v, options) ==
    IF v.k \in DOMAIN NumberEvents THEN ensure_number(t, NumberEvents[v.k])
    ELSE IF v.k \in DOMAIN PrimitiveEvents THEN ensure_primitive(t, PrimitiveEvents[v.k])
    ELSE IF v.k = "serialize_str" THEN TracerSerializeStr(t, v.s, options)
    ELSE IF v.k = "serialize_none" THEN TracerSerializeNone(t)
    ELSE IF v.k = "serialize_some" THEN TracerSerialize(mark_nullable(t), v.v, options)
    ELSE IF v.k = "serialize_newtype_struct" THEN TracerSerialize(t, v.v, options)
    ELSE IF v.k = "serialize_seq"
    THEN LET e == ensure_list(t)
         IN  IF e.ok THEN ListSerializer(e.t, v.items, 1, options) ELSE e
    ELSE IF v.k \in {"serialize_tuple", "serialize_tuple_struct"}
    THEN LET e == ensure_tuple(t, Len(v.items))
         IN  IF e.ok THEN TupleSerializer(e.t, v.items, 1, options) ELSE e
    ELSE IF v.k = "serialize_struct"
    THEN LET e == ensure_struct(t, "Struct")
         IN  IF e.ok THEN StructSerializer(e.t, v.fields, 1, options) ELSE e
    ELSE IF v.k \in VariantEvents THEN SerializeVariant(t, v, options)
    ELSE IF options.map_as_struct
    THEN LET e == ensure_struct(t, "Map")
         IN  IF e.ok THEN MapAsStruct(e.t, NoKey, v.events, 1, options) ELSE e
    ELSE LET e == ensure_map(t)
         IN  IF e.ok THEN MapAsMap(e.t, v.events, 1, options) ELSE e

\* the events OuterSequenceSerializer accepts for the root
OuterSequenceEvents == {"serialize_seq", "serialize_tuple", "serialize_tuple_variant"}

\* a root serializer that accepts every event
OuterSequenceAny(root) == TRUE

\* OuterSequenceSerializer: the root event starts a sequence, or fails
OuterSequenceSerializer(root) == root \in OuterSequenceEvents

\* the children of a tracer
TracerChildren(t) ==
    IF t.kind = "List" THEN <<t.item_tracer>>
    ELSE IF t.kind = "Tuple" THEN t.field_tracers
    ELSE IF t.kind = "Struct" THEN [i \in 1..Len(t.fields) |-> t.fields[i].tracer]
    ELSE IF t.kind = "Map" THEN <<t.key_tracer, t.value_tracer>>
    ELSE IF t.kind = "Union"
    THEN LET occupied == SelectSeq(t.variants, LAMBDA slot : slot.some)
         IN  [i \in 1..Len(occupied) |-> occupied[i].tracer]
    ELSE <<>>

RECURSIVE TracerFinish(_, _), FinishChildren(_, _, _), to_field(_)

\* Tracer::finish: a node that is still Unknown fails unless allow_null_fields
TracerFinish(t, options) ==
    IF t.kind = "Unknown"
    THEN IF options.allow_null_fields THEN TraceOk(t) ELSE TraceErr(NullOnlyOrUnknown, t)
    ELSE LET r == FinishChildren(TracerChildren(t), 1, options)
         IN  IF r.ok THEN TraceOk(t) ELSE [r EXCEPT !.t = t]

FinishChildren(children, i, options) ==
    IF i > Len(children) THEN [ok |-> TRUE, err |-> NoTraceError, t |-> <<>>]
    ELSE LET r == TracerFinish(children[i], options)
         IN  IF ~r.ok THEN r ELSE FinishChildren(children, i + 1, options)

\* the end of from_samples with the errors of finish dropped
FromSamplesIgnoreFinish(t, options) == TraceOk(t)

\* tracer.finish()?; tracer.check()?; Ok(tracer)
FromSamplesFinish(t, options) == TracerFinish(t, options)

NoField ==
    [name |-> "", data_type |-> "", nullable |-> FALSE, strategy |-> "", children |-> <<>>]

\* Tracer::to_field
to_field(t) ==
    [name |-> t.name,
     data_type |->
         CASE t.kind = "Unknown" -> "Null"
           [] t.kind = "Primitive" -> t.item_type
           [] t.kind = "List" -> "LargeList"
           [] t.kind = "Map" -> "Map"
           [] t.kind = "Union" -> "Union"
           [] OTHER -> "Struct",
     nullable |-> t.kind = "Unknown" \/ t.nullable,
     strategy |->
         CASE t.kind = "Primitive" -> t.strategy
           [] t.kind = "Tuple" -> "TupleAsStruct"
           [] t.kind = "Struct" /\ t.mode = "Map" -> "MapAsStruct"
           [] OTHER -> "",
     children |-> [i \in 1..Len(TracerChildren(t)) |-> to_field(TracerChildren(t)[i])]]

(***************************************************************************)
(* Tracer::from_samples: the root event, one observation per element of    *)
(* the root sequence, then finish and check; to_field on the tracer it     *)
(* returns.                                                                *)
(*   phase     new, seq (the root sequence is open), done (from_samples    *)
(*             returned the tracer), field (to_field was taken), failed    *)
(*   applied   the elements that were handed to the root tracer            *)
(*   finished  the root sequence has ended and finish was called           *)
(* The samples of a root that is no sequence are what the root holds.      *)
(***************************************************************************)
\* the most samples of a root sequence
MaxSamples == 3

TracingOptions(guess_dates, allow_null_fields, map_as_struct) ==
    [guess_dates |-> guess_dates, allow_null_fields |-> allow_null_fields,
     map_as_struct |-> map_as_struct]

\* the events of a root that is no sequence
NonSequenceEvents ==
    DOMAIN NumberEvents \cup DOMAIN PrimitiveEvents
    \cup {"serialize_str", "serialize_none", "serialize_some", "serialize_map",
          "serialize_struct", "serialize_struct_variant", "serialize_tuple_struct",
          "serialize_unit_variant", "serialize_newtype_struct", "serialize_newtype_variant"}

SamplesUpTo(alphabet, n) == UNION {[1..k -> alphabet] : k \in 0..n}

PrimitiveSamples(e) ==
    {Scalar(e), NoneValue, SomeValue(Scalar(e)), Scalar("serialize_bool")}

U32 == Scalar("serialize_u32")
Bool == Scalar("serialize_bool")
F32 == Scalar("serialize_f32")
F64 == Scalar("serialize_f64")

\* records over the fields a, b and item, as lists of (key, value)
RecordSamples ==
    {<<Entry("b", Bool)>>,
     <<Entry("a", U32), Entry("b", Bool)>>, <<Entry("b", Bool), Entry("a", U32)>>,
     <<Entry("a", SomeValue(U32)), Entry("b", Bool)>>,
     <<Entry("item", SeqValue(<<>>))>>, <<Entry("item", SeqValue(<<F32>>))>>}

StructSamples == {StructValue(fields) : fields \in RecordSamples}

\* the records over a and b, as maps with string keys
MapSamples ==
    {MapValue([i \in 1..Len(fields) |->
                  Entry(StrValue(<<fields[i].key>>), fields[i].v)]) :
        fields \in {r \in RecordSamples : r[1].key # "item"}}

\* maps by the calls of a Serialize that is written by hand: a value without
\* a key, two values after one key, two keys before one value, a key that is
\* no string, an optional string as key, a key without a value, and an entry
MapProtocolSamples ==
    {MapOfEvents(events) :
        events \in {<<ValueEvent(U32)>>,
                    <<KeyEvent(StrValue(<<"a">>)), ValueEvent(U32), ValueEvent(U32)>>,
                    <<KeyEvent(StrValue(<<"a">>)), KeyEvent(StrValue(<<"b">>)), ValueEvent(U32)>>,
                    <<KeyEvent(U32), ValueEvent(U32)>>,
                    <<KeyEvent(SomeValue(StrValue(<<"a">>))), ValueEvent(U32)>>,
                    <<KeyEvent(StrValue(<<"b">>))>>,
                    <<KeyEvent(StrValue(<<"a">>)), ValueEvent(U32)>>}}

\* the most samples of a run over MapProtocolSamples
MaxProtocolSamples == 2

Hello == StrValue(<<"x">>)

TupleSamples(len) ==
    LET items == CASE len = 0 -> {<<>>}
                   [] len = 1 -> {<<F64>>, <<NoneValue>>}
                   [] OTHER -> {<<F64, Hello>>, <<SomeValue(F64), Hello>>, <<F64, NoneValue>>}
    IN  {TupleValue("serialize_tuple", i) : i \in items}
        \cup {TupleValue("serialize_tuple_struct", i) : i \in {<<>>, <<F64>>, <<F64, Hello>>} \cap items}

ListSamples ==
    {SeqValue(items) :
        items \in {<<>>, <<F32>>, <<F32, F32>>, <<SomeValue(F32), NoneValue>>}}
    \cup {NoneValue}

\* the variants of enums over the indices 0 and 1 and the names A and B: a
\* variant without data, variants of a number, of a bool, of a record and of a
\* tuple
VariantSamples ==
    {UnitVariant(0, "A"), UnitVariant(1, "B"), UnitVariant(0, "B"),
     NewtypeVariant(0, "A", U32), NewtypeVariant(0, "A", Bool), NewtypeVariant(1, "A", U32),
     StructVariant(1, "B", <<Entry("a", U32)>>), TupleVariant(1, "B", <<F64, Hello>>)}

StringSamples ==
    {StrValue(s) :
        s \in {<<"date", "T", "time">>, <<"date", "T", "time", "frac">>,
               <<"date", "T", "time", "Z">>, <<"date", "T", "time", "frac", "+00:00">>,
               <<"x">>, <<"date", "T", "time", "x">>}}

TraceCall(root, options, samples) ==
    [root |-> root, options |-> options, samples |-> samples, phase |-> "new",
     tracer |-> TracerNew("$", <<"$">>), applied |-> <<>>, err |-> NoTraceError,
     finished |-> FALSE, field |-> NoField]

TraceCalls(max_samples) ==
    {TraceCall(root, TracingOptions(FALSE, FALSE, TRUE), samples) :
        root \in NonSequenceEvents, samples \in {<<>>, <<Scalar("serialize_i32")>>}}
    \cup {TraceCall(root, TracingOptions(FALSE, allow, TRUE), samples) :
            root \in OuterSequenceEvents, allow \in BOOLEAN,
            samples \in SamplesUpTo(PrimitiveSamples("serialize_i32"), 1)}
    \cup {TraceCall("serialize_seq", TracingOptions(FALSE, allow, TRUE), samples) :
            allow \in BOOLEAN,
            samples \in SamplesUpTo(PrimitiveSamples("serialize_i64"), max_samples)
                        \cup SamplesUpTo(PrimitiveSamples("serialize_i32"), max_samples)}
    \cup {TraceCall("serialize_seq", TracingOptions(FALSE, allow, TRUE), samples) :
            allow \in BOOLEAN,
            samples \in SamplesUpTo(StructSamples, max_samples)
                        \cup SamplesUpTo(ListSamples, max_samples)
                        \cup UNION {SamplesUpTo(TupleSamples(len), max_samples) : len \in 0..2}}
    \cup {TraceCall("serialize_seq", TracingOptions(FALSE, allow, as_struct), samples) :
            allow \in BOOLEAN, as_struct \in BOOLEAN,
            samples \in SamplesUpTo(MapSamples, max_samples)
                        \cup SamplesUpTo(MapProtocolSamples, MaxProtocolSamples)}
    \cup {TraceCall("serialize_seq", TracingOptions(guess, FALSE, TRUE), samples) :
            guess \in BOOLEAN, samples \in SamplesUpTo(StringSamples, max_samples)}
    \cup {TraceCall("serialize_seq", TracingOptions(FALSE, FALSE, TRUE), samples) :
            samples \in SamplesUpTo(VariantSamples, max_samples)}

IdleTrace == trace = TraceCall("serialize_unit", TracingOptions(FALSE, FALSE, TRUE), <<>>)

InitTrace == trace \in TraceCalls(MaxSamples)

TraceFrame ==
    UNCHANGED <<iterVars, layoutVars, bitVars, offVars, rtVars, valVars, fslVars, ctorVars, dispVars>>

\* samples.serialize(OuterSequenceSerializer(&mut tracer)): the root event
TraceSerializeRoot ==
    /\ trace.phase = "new"
    /\ trace' = IF OuterSequenceSerializer(trace.root)
                THEN [trace EXCEPT !.phase = "seq"]
                ELSE [trace EXCEPT !.phase = "failed",
                                   !.err = [msg |-> NonSequence, path |-> <<>>,
                                            tracer_type |-> ""]]
    /\ TraceFrame

\* OuterSequenceSerializer::serialize_element: the next element on the tracer
TraceSerializeElement ==
    /\ trace.phase = "seq"
    /\ Len(trace.applied) < Len(trace.samples)
    /\ LET i == Len(trace.applied) + 1
           r == TracerSerialize(trace.tracer, trace.samples[i], trace.options)
       IN  trace' = [trace EXCEPT !.applied = Append(@, i),
                                  !.tracer = r.t,
                                  !.phase = IF r.ok THEN "seq" ELSE "failed",
                                  !.err = r.err]
    /\ TraceFrame

\* OuterSequenceSerializer::end, then tracer.finish()? and tracer.check()?
TraceFinish ==
    /\ trace.phase = "seq"
    /\ Len(trace.applied) = Len(trace.samples)
    /\ LET r == FromSamplesFinish(trace.tracer, trace.options)
       IN  trace' = [trace EXCEPT !.phase = IF r.ok THEN "done" ELSE "failed",
                                  !.err = r.err, !.finished = TRUE]
    /\ TraceFrame

\* tracer.to_field() on the tracer from_samples returned
TraceToField ==
    /\ trace.phase = "done"
    /\ trace' = [trace EXCEPT !.phase = "field", !.field = to_field(trace.tracer)]
    /\ TraceFrame

(***************************************************************************)
(* The specifications, one per component.                                  *)
(***************************************************************************)
IterInit == InitIter /\ IdleLayout /\ IdleBits /\ IdleOffsets /\ IdleRt /\ IdleVal /\ IdleFsl /\ IdleCtor /\ IdleTrace /\ IdleDisp

NextIter == IterNext \/ IterNextRequired \/ IterPeekNext \/ IterConsumeNext

SpecIter == IterInit /\ [][NextIter]_vars

LayoutInit == IdleIter /\ InitLayout /\ IdleBits /\ IdleOffsets /\ IdleRt /\ IdleVal /\ IdleFsl /\ IdleCtor /\ IdleTrace /\ IdleDisp

NextLayout == CheckLayout

SpecLayout == LayoutInit /\ [][NextLayout]_vars

BitsInit == IdleIter /\ IdleLayout /\ InitBits /\ IdleOffsets /\ IdleRt /\ IdleVal /\ IdleFsl /\ IdleCtor /\ IdleTrace /\ IdleDisp

NextBits == BitPush \/ BitClear \/ BitAsBool

SpecBits == BitsInit /\ [][NextBits]_vars

OffsetsInit == IdleIter /\ IdleLayout /\ IdleBits /\ InitOffsets /\ IdleRt /\ IdleVal /\ IdleFsl /\ IdleCtor /\ IdleTrace /\ IdleDisp

NextOffsets == OffPush \/ OffPushCurrentItems \/ OffIncCurrentItems \/ OffClear

SpecOffsets == OffsetsInit /\ [][NextOffsets]_vars

RoundTripInit == IdleIter /\ IdleLayout /\ IdleBits /\ IdleOffsets /\ InitRt /\ IdleVal /\ IdleFsl /\ IdleCtor /\ IdleTrace /\ IdleDisp

NextRoundTrip ==
    \/ RtSerializeNone \/ RtSeqStart \/ RtSeqElement \/ RtSeqEnd
    \/ RtIntoArray \/ RtNewDeserializer \/ RtDeserializeRecord

SpecRoundTrip == RoundTripInit /\ [][NextRoundTrip]_vars

ValidityInit ==
    IdleIter /\ IdleLayout /\ IdleBits /\ IdleOffsets /\ IdleRt /\ InitVal /\ IdleFsl /\ IdleCtor /\ IdleTrace /\ IdleDisp

NextValidity == ValPushValidity \/ ValPushValidityDefault \/ ValIntoArray

SpecValidity == ValidityInit /\ [][NextValidity]_vars

FslInit ==
    IdleIter /\ IdleLayout /\ IdleBits /\ IdleOffsets /\ IdleRt /\ IdleVal /\ InitFsl /\ IdleCtor /\ IdleTrace /\ IdleDisp

NextFsl ==
    \/ FslEvStart \/ FslEvElement \/ FslEvEnd \/ FslEvRow \/ FslEvUnit
    \/ FslEvForward \/ FslEvUnsupported \/ FslEvIntoArray

SpecFsl == FslInit /\ [][NextFsl]_vars

CtorInit ==
    IdleIter /\ IdleLayout /\ IdleBits /\ IdleOffsets /\ IdleRt /\ IdleVal /\ IdleFsl /\ InitCtor /\ IdleTrace /\ IdleDisp

NextCtor == CtorNew

SpecCtor == CtorInit /\ [][NextCtor]_vars

DispatchInit ==
    /\ IdleIter /\ IdleLayout /\ IdleBits /\ IdleOffsets /\ IdleRt /\ IdleVal /\ IdleFsl
    /\ IdleCtor /\ IdleTrace /\ InitDisp

NextDispatch == DispDeserialize \/ DispAnnotate

SpecDispatch == DispatchInit /\ [][NextDispatch]_vars

TraceInit ==
    /\ IdleIter /\ IdleLayout /\ IdleBits /\ IdleOffsets /\ IdleRt /\ IdleVal /\ IdleFsl
    /\ IdleCtor /\ InitTrace /\ IdleDisp

NextTrace == TraceSerializeRoot \/ TraceSerializeElement \/ TraceFinish \/ TraceToField

SpecTrace == TraceInit /\ [][NextTrace]_vars

(***************************************************************************)
(* Properties of ArrayBufferIterator (SpecIter).                           *)
(***************************************************************************)
\* the slot at cursor c of the iterator is null: it has a validity bit, and it is 0
SlotIsNull(it, c) ==
    /\ it.validity.present
    /\ bitset_is_set(it.validity, c).ok
    /\ ~bitset_is_set(it.validity, c).bit

\* C2: a next() call on a slot of the buffer whose validity bit is 0 returns
\* None and leaves the cursor one slot further.
C2_NextOnNullAdvances ==
    (call.op = "next" /\ call.at < Len(iter.buffer) /\ SlotIsNull(iter, call.at))
        => (call.kind = "None" /\ iter.next = call.at + 1)

\* C3: a next() or next_required() call made with the cursor at or beyond the
\* length of the values buffer returns the error "Exhausted deserializer": it
\* returns no value and does not abort on an out-of-bounds access.
C3_PastTheEndIsExhausted ==
    (call.op \in {"next", "next_required"} /\ call.at >= Len(iter.buffer))
        => (call.kind = "Err" /\ call.msg = Exhausted)

\* C4: peek_next() leaves the cursor where it is, and in every reachable state
\* of a running iterator it returns true exactly when a next() from that state
\* returns Some, and false exactly when that next() returns None.
C4_PeekAgreesWithNext ==
    /\ call.op = "peek_next" => iter.next = call.at
    /\ ~iter.aborted =>
        /\ IterPeekNextOf(iter).next = iter.next
        /\ IterPeekNextOf(iter).kind = "True" <=> IterNextOf(iter).kind = "Some"
        /\ IterPeekNextOf(iter).kind = "False" <=> IterNextOf(iter).kind = "None"

\* C5: next_required() fails with "Exhausted deserializer" when the slot at the
\* cursor is null or the cursor is at or beyond the end of the buffer, and
\* otherwise returns the value at the cursor and moves the cursor on by one.
C5_NextRequired ==
    call.op = "next_required" =>
        IF call.at >= Len(iter.buffer) \/ SlotIsNull(iter, call.at)
        THEN call.kind = "Err" /\ call.msg = Exhausted
        ELSE /\ call.kind = "Some"
             /\ call.val = iter.buffer[call.at + 1]
             /\ iter.next = call.at + 1

(***************************************************************************)
(* Properties of check_supported_list_layout (SpecLayout).  Row i of the   *)
(* layout is the segment offsets[i] .. offsets[i+1] (0-based).              *)
(***************************************************************************)
LayoutRows == 0..(Len(layout.offsets) - 2)

RowIsNull(i) ==
    /\ layout.validity.present
    /\ bitset_is_set(layout.validity, i).ok
    /\ ~bitset_is_set(layout.validity, i).bit

NullRowWithData(i) == RowIsNull(i) /\ layout.offsets[i + 2] # layout.offsets[i + 1]

DecreasingRow(i) == layout.offsets[i + 2] < layout.offsets[i + 1]

\* the offsets 0 .. k (0-based) are non-negative
NonNegativeUpTo(k) == \A j \in 1..(k + 1) : layout.offsets[j] >= 0

\* the offsets are a valid offsets buffer: non-empty, non-negative, non-decreasing
ValidOffsets ==
    /\ Len(layout.offsets) > 0
    /\ NonNegativeUpTo(Len(layout.offsets) - 1)
    /\ \A i \in LayoutRows : ~DecreasingRow(i)

NullRowsAreEmpty ==
    ~layout.validity.present \/ \A i \in LayoutRows : ~NullRowWithData(i)

\* C6 as stated: every layout with a null row that holds data is rejected with
\* "data in null values"; a layout without validity or whose null rows are all
\* empty, and whose offsets are valid, is accepted.
C6_NullRowWithDataSaysNullData ==
    layout.done =>
        /\ (\E i \in LayoutRows : NullRowWithData(i)) => layout.res = Err(NullData)
        /\ (NullRowsAreEmpty /\ ValidOffsets) => layout.res = Ok

\* C6 (amended): every layout with a null row i that holds data is rejected;
\* the error is "data in null values" when the offsets 0 .. i+1 are
\* non-negative and non-decreasing (else an offsets error of row i or of a row
\* before it is reported first).  A layout without validity or whose null rows
\* are all empty, and whose offsets are valid, is accepted.
C6_NullRowWithDataRejected ==
    layout.done =>
        /\ \A i \in LayoutRows : NullRowWithData(i) =>
            /\ ~layout.res.ok
            /\ (NonNegativeUpTo(i + 1) /\ \A j \in 0..i : ~DecreasingRow(j))
                   => layout.res = Err(NullData)
        /\ (NullRowsAreEmpty /\ ValidOffsets) => layout.res = Ok

\* the layout of spec scenario 6 on a small scale: validity 0b101 over three
\* rows, the null row 1 holding data
C6_Witness ==
    /\ layout.done
    /\ layout.validity = BitsWithOffset(<<5>>, 0)
    /\ layout.offsets = <<0, 1, 2, 2>>
    /\ layout.res = Err(NullData)

\* C7 as stated: an empty offsets slice fails with "non empty"; offsets with a
\* decreasing pair fail with "monotonically increasing"; non-decreasing,
\* non-negative offsets without validity are accepted.
C7_DecreasingSaysMonotonic ==
    layout.done =>
        /\ Len(layout.offsets) = 0 => layout.res = Err(NonEmpty)
        /\ (\E i \in LayoutRows : DecreasingRow(i)) => layout.res = Err(Monotonic)
        /\ (~layout.validity.present /\ ValidOffsets) => layout.res = Ok

\* C7 (amended): an empty offsets slice fails with "non empty"; offsets with a
\* decreasing pair at row i always fail, and with "monotonically increasing"
\* when nothing before that pair is rejected first: the offsets 0 .. i+1 are
\* non-negative and no row before i is a null row with data.  Non-decreasing,
\* non-negative offsets without validity are accepted.
C7_DecreasingRejected ==
    layout.done =>
        /\ Len(layout.offsets) = 0 => layout.res = Err(NonEmpty)
        /\ \A i \in LayoutRows : DecreasingRow(i) =>
            /\ ~layout.res.ok
            /\ (NonNegativeUpTo(i + 1) /\ \A j \in 0..(i - 1) : ~NullRowWithData(j))
                   => layout.res = Err(Monotonic)
        /\ (~layout.validity.present /\ ValidOffsets) => layout.res = Ok

\* the case of test_check_supported_list_layout: offsets [0, 1, 0], no validity
C7_Witness ==
    /\ layout.done
    /\ ~layout.validity.present
    /\ layout.offsets = <<0, 1, 0>>
    /\ layout.res = Err(Monotonic)

(***************************************************************************)
(* Properties of MutableBitBuffer (SpecBits).                              *)
(***************************************************************************)
\* C8: after the booleans pushed = b_0 .. b_{k-1} went into an empty buffer,
\* len is k and bit i of the buffer, buffer[i/8] & (1 << (i%8)), is set exactly
\* when b_i is true; as pushed only grows, no later push changed an earlier bit.
C8_PushedBitsLsbFirst ==
    /\ bits.len = Len(pushed)
    /\ \A i \in 0..(Len(pushed) - 1) :
           TestBit(bits.buffer[(i \div 8) + 1], i % 8) <=> pushed[i + 1]

\* ten pushes, true and false mixed, the last two in the second byte
C8_Witness ==
    /\ bits.len = 10
    /\ pushed[1] /\ ~pushed[2] /\ pushed[8] /\ pushed[9] /\ ~pushed[10]
    /\ bits.buffer[2] = 1

(***************************************************************************)
(* Properties of MutableOffsetBuffer<i32> (SpecOffsets).                   *)
(***************************************************************************)
LastOffset == offs.offsets[Len(offs.offsets)]

\* c = a + b over the integers, for i32 a and c and 0 <= b <= i32::MAX
IsSum(a, b, c) ==
    /\ c >= a
    /\ IF a >= 0 \/ c < 0 THEN c - a = b ELSE c - b = a

\* C9: whatever calls were made, the offsets are monotonically non-decreasing.
C9_OffsetsMonotonic ==
    \A i \in 1..(Len(offs.offsets) - 1) : offs.offsets[i] <= offs.offsets[i + 1]

\* C10: offsets.len() == len() + 1 and offsets[0] == 0; a fresh or cleared
\* buffer holds the single offset 0; a push(n) that returns Ok adds one offset,
\* equal to the previous current_items + n; push_current_items adds one
\* offset; inc_current_items adds none.
C10_OneOffsetPerPush ==
    /\ Len(offs.offsets) = OffsetBufferLen(offs) + 1
    /\ offs.offsets[1] = 0
    /\ offCall.op \in {"new", "clear"} => offs.offsets = <<0>>
    /\ (offCall.op = "push" /\ offCall.kind = "Ok") =>
        /\ Len(offs.offsets) = offCall.count + 1
        /\ IsSum(offCall.items, offCall.n.v, LastOffset)
    /\ offCall.op = "push_current_items" =>
        /\ Len(offs.offsets) = offCall.count + 1
        /\ LastOffset = offCall.items
    /\ offCall.op = "inc_current_items" => Len(offs.offsets) = offCall.count

C11_ValidityPerRow ==
    /\ ~vcalls.nullable => vcalls.validity = NoBitBuffer
    /\ vcalls.nullable =>
           /\ vcalls.validity.present
           /\ vcalls.validity.buf.len = vcalls.calls
           /\ Len(vcalls.hist) = vcalls.calls
           /\ \A i \in 1..vcalls.calls :
                  TestBit(vcalls.validity.buf.buffer[((i - 1) \div 8) + 1], (i - 1) % 8)
                      = vcalls.hist[i]
    /\ vcalls.done =>
           /\ vcalls.is_nullable = vcalls.validity.present
           /\ vcalls.array.validity.present = vcalls.validity.present
           /\ vcalls.array.len = Len(vcalls.hist)
           /\ vcalls.validity.present =>
                  /\ vcalls.array.validity.data = vcalls.validity.buf.buffer
                  /\ vcalls.array.validity.offset = 0

C11_Witness ==
    /\ vcalls.done /\ vcalls.nullable /\ vcalls.is_nullable
    /\ vcalls.calls = 3
    /\ vcalls.hist = <<TRUE, FALSE, FALSE>>
    /\ vcalls.array.validity.present

(***************************************************************************)
(* Properties of FixedSizeListBuilder (SpecFsl).                           *)
(***************************************************************************)
EndEvents == {EndEvent(flavour) : flavour \in Flavours}

\* C12: the end of a sequence succeeds exactly when n element events were
\* received since its start; with fewer or more it fails with "Invalid number
\* of elements for FixedSizedList" and completes no row.
C12_EndNeedsExactlyN ==
    fsl.op \in EndEvents =>
        /\ fsl.res.ok <=> (fsl.elems = fsl.b.n)
        /\ fsl.res.ok => fsl.b.seq.len = fsl.before.seq.len + 1
        /\ ~fsl.res.ok =>
               /\ fsl.res.err.text = InvalidNumberOfElements
               /\ fsl.b.seq = fsl.before.seq

C12_Witness ==
    /\ fsl.op = "serialize_tuple_end"
    /\ fsl.b.n = 1 /\ fsl.elems = 2
    /\ ~fsl.res.ok
    /\ fsl.res.err.text = InvalidNumberOfElements

\* C13: when every event so far succeeded and every started sequence has been
\* ended, the element child holds n values per row of the builder, and
\* into_array reports that number of rows as len.
C13_ChildLength ==
    (fsl.clean /\ ~fsl.abandoned /\ fsl.open = "") =>
        /\ fsl.b.seq.len = fsl.rows
        /\ Len(fsl.b.element.values) = fsl.b.n * fsl.rows
        /\ fsl.done =>
               /\ fsl.array.len = fsl.rows
               /\ Len(fsl.array.element.values) = fsl.array.n * fsl.array.len

C13_Witness ==
    /\ fsl.done /\ fsl.clean /\ ~fsl.abandoned /\ fsl.open = ""
    /\ fsl.b.n = 2 /\ fsl.rows = 2
    /\ fsl.array.len = 2
    /\ Len(fsl.array.element.values) = 4
    /\ fsl.b.element.defaults = 2

\* C14: a none event and a default event each add one row and send n default
\* events to the element child; when the row cannot be recorded (none on a
\* builder that is not nullable) the event fails and the child receives nothing.
C14_NoneAndDefault ==
    fsl.op \in {"serialize_none", "serialize_default"} =>
        /\ fsl.res.ok <=> (fsl.op = "serialize_default" \/ FslIsNullable(fsl.before))
        /\ fsl.res.ok =>
               /\ fsl.b.seq.len = fsl.before.seq.len + 1
               /\ fsl.b.element.defaults = fsl.before.element.defaults + fsl.b.n
               /\ Len(fsl.b.element.values) = Len(fsl.before.element.values) + fsl.b.n
        /\ ~fsl.res.ok =>
               /\ fsl.b.seq = fsl.before.seq
               /\ fsl.b.element = fsl.before.element

C14_Witness ==
    /\ fsl.op = "serialize_none" /\ fsl.res.ok
    /\ fsl.b.n = 2
    /\ fsl.before.seq.len = 1
    /\ fsl.b.seq.len = 2
    /\ fsl.b.element.defaults = 2

IndexKinds == {"Int8", "Int16", "Int32", "Int64", "UInt8", "UInt16", "UInt32", "UInt64"}

\* the key type of an index view: the letter and the width of its kind
KeyOf(kind) ==
    CASE kind = "Int8" -> "I8" [] kind = "Int16" -> "I16" [] kind = "Int32" -> "I32"
      [] kind = "Int64" -> "I64" [] kind = "UInt8" -> "U8" [] kind = "UInt16" -> "U16"
      [] kind = "UInt32" -> "U32" [] kind = "UInt64" -> "U64"

\* the offset type of a values view
OffsetOf(kind) == IF kind = "Utf8" THEN "I32" ELSE "I64"

\* C16: a dictionary view is accepted exactly when its indices are one of the
\* eight integer views and its values are Utf8 or LargeUtf8, and is then mapped
\* to the variant of that key and offset type; every other combination fails
\* with "Unsupported dictionary array type".
C16_DictionaryCombinations ==
    (ctor.done /\ ctor.view.kind = "Dictionary") =>
        IF ctor.view.indices.kind \in IndexKinds
           /\ ctor.view.values.kind \in {"Utf8", "LargeUtf8"}
        THEN /\ ctor.res.ok
             /\ ctor.res.d.kind = "Dictionary"
             /\ ctor.res.d.key = KeyOf(ctor.view.indices.kind)
             /\ ctor.res.d.offset = OffsetOf(ctor.view.values.kind)
        ELSE /\ ~ctor.res.ok
             /\ ctor.res.msg = UnsupportedDictionary

C16_Witness ==
    /\ ctor.done
    /\ ctor.view = DictionaryView(LeafView("UInt16"), LeafView("LargeUtf8"))
    /\ ctor.res.ok
    /\ ctor.res.d.key = "U16" /\ ctor.res.d.offset = "I64"

\* the type ids of the fields are 0, 1, 2, .. in this order
ConsecutiveIds(fields) == \A i \in 1..Len(fields) : fields[i].type_id = i - 1

\* field i of a union view constructs: its strategy parses and its view is accepted
FieldConstructs(f) ==
    /\ get_strategy(f.meta).ok
    /\ ArrayDeserializerNew(<<"$", f.meta.name>>, get_strategy(f.meta).strategy, f.view).ok

\* C17 as stated: a dense union view is accepted only when the type ids of its
\* fields are consecutive from 0, and every other type id list fails with "Only
\* unions with consecutive type ids are currently supported".
C17_NonConsecutiveSaysConsecutive ==
    (ctor.done /\ ctor.view.kind = "DenseUnion" /\ ~ConsecutiveIds(ctor.view.fields)) =>
        (~ctor.res.ok /\ ctor.res.msg = ConsecutiveTypeIds)

\* C17: a dense union view whose type ids are not consecutive from 0 is
\* rejected; the error is "Only unions with consecutive type ids are currently
\* supported" when every field before the first field with an out-of-place type
\* id constructs, otherwise it is the error of such an earlier field.
C17_NonConsecutiveRejected ==
    (ctor.done /\ ctor.view.kind = "DenseUnion" /\ ~ConsecutiveIds(ctor.view.fields)) =>
        LET fields == ctor.view.fields
            first == CHOOSE i \in 1..Len(fields) :
                         /\ fields[i].type_id # i - 1
                         /\ \A j \in 1..(i - 1) : fields[j].type_id = j - 1
        IN  /\ ~ctor.res.ok
            /\ (\A j \in 1..(first - 1) : FieldConstructs(fields[j]))
                   => ctor.res.msg = ConsecutiveTypeIds
            /\ ctor.res.msg = ConsecutiveTypeIds
                   => \A j \in 1..(first - 1) : FieldConstructs(fields[j])

C17_Witness ==
    /\ ctor.done /\ ctor.view.kind = "DenseUnion"
    /\ Len(ctor.view.fields) = 3
    /\ ctor.view.fields[1].type_id = 0 /\ ctor.view.fields[2].type_id = 2
    /\ ctor.view.fields[3].type_id = 1
    /\ FieldConstructs(ctor.view.fields[1])
    /\ ~ctor.res.ok /\ ctor.res.msg = ConsecutiveTypeIds

\* C18: a map view is accepted only when its element is a struct view of
\* exactly two fields, and then the first field is the keys and the second the
\* values; an element that is no struct, or a struct of fewer or more than two
\* fields, fails with "Invalid entries field in map array".
C18_MapEntries ==
    (ctor.done /\ ctor.view.kind = "Map") =>
        IF ctor.view.element.kind = "Struct" /\ Len(ctor.view.element.fields) = 2
        THEN ctor.res.ok =>
                 /\ ctor.res.d.kind = "Map"
                 /\ ctor.res.d.keys =
                        ArrayDeserializerNew(<<"$", ctor.view.element.fields[1].meta.name>>,
                                             ctor.view.element.fields[1].meta.strategy,
                                             ctor.view.element.fields[1].view).d
                 /\ ctor.res.d.values =
                        ArrayDeserializerNew(<<"$", ctor.view.element.fields[2].meta.name>>,
                                             ctor.view.element.fields[2].meta.strategy,
                                             ctor.view.element.fields[2].view).d
        ELSE /\ ~ctor.res.ok
             /\ ctor.res.msg = InvalidEntries

C18_Witness ==
    /\ ctor.done /\ ctor.view.kind = "Map"
    /\ ctor.view.element.kind = "Struct" /\ Len(ctor.view.element.fields) = 3
    /\ \A i \in 1..3 : FieldConstructs(ctor.view.element.fields[i])
    /\ ctor.view.offsets = <<0, 1>>
    /\ ~ctor.res.ok /\ ctor.res.msg = InvalidEntries

\* the spellings of "utc" in upper and lower case
UtcSpellings ==
    {<<u, t, c>> : u \in {"u", "U"}, t \in {"t", "T"}, c \in {"c", "C"}}

\* C19: a timestamp view with a timezone is accepted only if the timezone is
\* "utc" in some mix of upper and lower case, and its values are then UTC; every
\* other timezone string makes ArrayDeserializer::new fail; a view without a
\* timezone is naive.
C19_TimestampTimezone ==
    (ctor.done /\ ctor.view.kind = "Timestamp") =>
        /\ (ctor.res.ok /\ ctor.view.timezone.some) =>
               (ctor.view.timezone.tz \in UtcSpellings /\ ctor.res.d.is_utc)
        /\ (ctor.view.timezone.some /\ ctor.view.timezone.tz \notin UtcSpellings) =>
               ~ctor.res.ok
        /\ (ctor.res.ok /\ ~ctor.view.timezone.some) => ~ctor.res.d.is_utc

C19_Witness ==
    /\ ctor.done /\ ctor.view.kind = "Timestamp"
    /\ ctor.view.timezone = SomeTimezone(<<"U", "t", "C">>)
    /\ ctor.strategy = ""
    /\ ctor.res.ok /\ ctor.res.d.is_utc

\* C20: a timestamp or Date64 view under a strategy other than
\* NaiveStrAsDate64 / UtcStrAsDate64 is rejected, a timestamp view with a
\* message that says "is not supported for timestamp field"; without a strategy
\* or under one of the two date strategies the view is accepted, given a
\* timezone that is supported.
C20_DateStrategies ==
    (ctor.done /\ ctor.view.kind \in {"Timestamp", "Date64"}) =>
        IF ctor.strategy \in {"", "NaiveStrAsDate64", "UtcStrAsDate64"}
        THEN (ctor.view.kind = "Timestamp" =>
                 (~ctor.view.timezone.some \/ ctor.view.timezone.tz \in UtcSpellings))
                 => ctor.res.ok
        ELSE /\ ~ctor.res.ok
             /\ ctor.view.kind = "Timestamp" => ctor.res.msg = NotSupportedForTimestamp

C20_Witness ==
    /\ ctor.done /\ ctor.view.kind = "Timestamp"
    /\ ctor.strategy = "MapAsStruct"
    /\ ctor.view.timezone = SomeTimezone(<<"u", "t", "c">>)
    /\ ~ctor.res.ok /\ ctor.res.msg = NotSupportedForTimestamp

\* the child fields of a view: the field of the element of a list, the fields
\* of a struct, the fields of the entries of a map, the fields of a union
ChildFields(view) ==
    IF view.kind \in {"List", "LargeList", "FixedSizeList"}
    THEN <<Field(view.element, view.meta)>>
    ELSE IF view.kind \in {"Struct", "DenseUnion"}
    THEN [i \in 1..Len(view.fields) |-> Field(view.fields[i].view, view.fields[i].meta)]
    ELSE IF view.kind = "Map" /\ view.element.kind = "Struct"
    THEN view.element.fields
    ELSE <<>>

RECURSIVE AnyUnknownStrategy(_)

\* some child field of the tree carries a strategy that is not recognised
AnyUnknownStrategy(view) ==
    \E i \in 1..Len(ChildFields(view)) :
        \/ ChildFields(view)[i].meta.strategy \notin Strategies \cup {""}
        \/ AnyUnknownStrategy(ChildFields(view)[i].view)

\* the children of a deserializer, in the order of the child fields of its view
ChildDeserializers(d) ==
    IF d.kind \in {"List", "LargeList", "FixedSizeList"} THEN <<d.item>>
    ELSE IF d.kind \in {"Struct", "Enum"} THEN [i \in 1..Len(d.fields) |-> d.fields[i].d]
    ELSE IF d.kind = "Map" THEN <<d.keys, d.values>>
    ELSE <<>>

RECURSIVE NoKeyNoStrategy(_, _)

\* every Date64 child whose field has no strategy key is the deserializer
\* of strategy None: it reads UTC
NoKeyNoStrategy(d, view) ==
    \A i \in 1..Len(ChildFields(view)) :
        LET f == ChildFields(view)[i]
            c == ChildDeserializers(d)[i]
        IN  /\ (f.meta.strategy = "" /\ f.view.kind = "Date64") =>
                    c = Date64DeserializerNew(c.path, "Millisecond", TRUE)
            /\ NoKeyNoStrategy(c, f.view)

\* C21: when a child field of a list, large list, fixed size list, struct, map
\* or union view carries a strategy that is not one of the five recognised
\* ones, ArrayDeserializer::new fails for the whole tree; a child whose field
\* has no strategy key is constructed with no strategy.
C21_UnknownChildStrategy ==
    ctor.done =>
        /\ AnyUnknownStrategy(ctor.view) => ~ctor.res.ok
        /\ ctor.res.ok => NoKeyNoStrategy(ctor.res.d, ctor.view)
        /\ \A i \in 1..Len(ChildFields(ctor.view)) :
               ChildFields(ctor.view)[i].meta.strategy = "" =>
                   get_strategy(ChildFields(ctor.view)[i].meta) = [ok |-> TRUE, strategy |-> ""]

\* a large list of structs was rejected for the unknown strategy of a field of
\* the struct
C21_Witness ==
    /\ ctor.done /\ ~ctor.res.ok /\ ctor.res.msg = UnknownStrategy
    /\ ctor.view.kind = "LargeList" /\ ctor.view.meta.strategy = ""
    /\ ctor.view.element.kind = "Struct"
    /\ AnyUnknownStrategy(ctor.view.element)

RECURSIVE ChildPaths(_, _, _), ElementPaths(_, _, _)

\* every child of the tree has the path of its parent and the name of its field
ChildPaths(d, view, path) ==
    /\ d.path = path
    /\ \A i \in 1..Len(ChildFields(view)) :
           ChildPaths(ChildDeserializers(d)[i], ChildFields(view)[i].view,
                      Append(path, ChildFields(view)[i].meta.name))

\* the same, with the child of a list at the segment "element"
ElementPaths(d, view, path) ==
    /\ d.path = path
    /\ \A i \in 1..Len(ChildFields(view)) :
           ElementPaths(ChildDeserializers(d)[i], ChildFields(view)[i].view,
                        Append(path,
                               IF view.kind \in {"List", "LargeList", "FixedSizeList"}
                               THEN "element" ELSE ChildFields(view)[i].meta.name))

\* C22 as stated: the path of every child is the path of its parent, a dot and
\* the name of the child; a struct child gets "<parent>.<fieldname>", the child
\* of a list, large list or fixed size list gets "<parent>.element".
C22_ListChildAtElement ==
    (ctor.done /\ ctor.res.ok) => ElementPaths(ctor.res.d, ctor.view, <<"$">>)

\* C22: the path of every child is the path of its parent, a dot and the name
\* of the child's field: a struct child gets "<parent>.<fieldname>", and the
\* child of a list, large list or fixed size list gets "<parent>.<name>" for
\* the name of the element field of the view, which is "<parent>.element" when
\* that field is named element.
C22_ChildPathByFieldName ==
    (ctor.done /\ ctor.res.ok) =>
        /\ ChildPaths(ctor.res.d, ctor.view, <<"$">>)
        /\ (/\ ctor.view.kind \in {"List", "LargeList", "FixedSizeList"}
            /\ ctor.view.meta.name = "element") => ctor.res.d.item.path = <<"$", "element">>

\* a list whose element field is named item, over a struct, was constructed
C22_Witness ==
    /\ ctor.done /\ ctor.res.ok
    /\ ctor.view.kind = "List" /\ ctor.view.meta.name = "item"
    /\ ctor.view.element.kind = "Struct"
    /\ ctor.res.d.item.fields[1].d.path = <<"$", "item", "f">>

(***************************************************************************)
(* Properties of Tracer::from_samples (SpecTrace).                         *)
(***************************************************************************)
RECURSIVE Replay(_, _, _)

\* the root tracer after the first n samples
Replay(samples, n, options) ==
    IF n = 0 THEN TracerNew("$", <<"$">>)
    ELSE TracerSerialize(Replay(samples, n - 1, options), samples[n], options).t

\* C23: from_samples needs a root that serializes as a sequence.  A root that
\* is a scalar, a string, bytes, an option, unit, a struct, a map, a newtype
\* or an enum variant without a sequence fails with "Cannot trace
\* non-sequences" and no observation reaches the tracer; of a sequence root
\* every element is applied, in order, as one observation on the one root
\* tracer named "$".
C23_RootMustBeSequence ==
    /\ (trace.phase # "new" /\ trace.root \in NonSequenceEvents) =>
           /\ trace.phase = "failed" /\ trace.err.msg = NonSequence
           /\ trace.applied = <<>>
           /\ trace.tracer = TracerNew("$", <<"$">>)
    /\ (trace.phase # "new" /\ trace.root = "serialize_seq") =>
           /\ trace.err.msg # NonSequence
           /\ trace.applied = [i \in 1..Len(trace.applied) |-> i]
           /\ trace.tracer.name = "$" /\ trace.tracer.path = <<"$">>
           /\ trace.phase # "failed" =>
                  trace.tracer = Replay(trace.samples, Len(trace.applied), trace.options)
           /\ trace.phase \in {"done", "field"} => Len(trace.applied) = Len(trace.samples)

\* a struct at the root was rejected
C23_Witness ==
    /\ trace.root = "serialize_struct" /\ trace.phase = "failed"
    /\ trace.samples # <<>>
    /\ trace.err.msg = NonSequence /\ trace.applied = <<>>

\* the field of a primitive node named "$"
PrimitiveField(data_type, nullable) ==
    [name |-> "$", data_type |-> data_type, nullable |-> nullable, strategy |-> "",
     children |-> <<>>]

\* C24: a None observation marks the node nullable and leaves its data type
\* as it is, Some(v) marks it nullable and then observes v; so samples of
\* plain values of one primitive type give a non-nullable field of that type
\* ([13, 21, 42] as i64 gives Int64, not nullable), and samples of None and
\* Some(v) with at least one Some give the type of v, nullable, in any order
\* ([None, Some(42)] and [Some(42)] give Int32, nullable).
C24_NoneAndSome ==
    /\ \A i \in 1..Len(trace.applied) :
           LET before == Replay(trace.samples, i - 1, trace.options)
               after == Replay(trace.samples, i, trace.options)
               v == trace.samples[i]
           IN  /\ v = NoneValue => after = [before EXCEPT !.nullable = TRUE]
               /\ (v.k = "serialize_some" /\ (i < Len(trace.applied) \/ trace.phase # "failed")) =>
                      /\ after.nullable
                      /\ after = TracerSerialize([before EXCEPT !.nullable = TRUE], v.v,
                                                 trace.options).t
    /\ (trace.phase = "field" /\ trace.samples # <<>>) =>
           \A e \in {"serialize_i64", "serialize_i32"} :
               /\ (\A i \in 1..Len(trace.samples) : trace.samples[i] = Scalar(e)) =>
                      trace.field = PrimitiveField(NumberEvents[e], FALSE)
               /\ (/\ \A i \in 1..Len(trace.samples) :
                          trace.samples[i] \in {NoneValue, SomeValue(Scalar(e))}
                   /\ \E i \in 1..Len(trace.samples) : trace.samples[i] = SomeValue(Scalar(e))) =>
                      trace.field = PrimitiveField(NumberEvents[e], TRUE)

\* [None, Some(42_i32)] was traced as a nullable Int32
C24_Witness ==
    /\ trace.phase = "field"
    /\ trace.samples = <<NoneValue, SomeValue(Scalar("serialize_i32"))>>
    /\ trace.field = PrimitiveField("Int32", TRUE)

\* the records of a sample that is a struct or a map: its (key, value) list
\* with the keys as field names
RecordOf(v) ==
    IF v.k = "serialize_struct" THEN v.fields
    ELSE [i \in 1..(Len(v.events) \div 2) |->
             Entry(SerializeToString(v.events[2 * i - 1].v).key, v.events[2 * i].v)]

KeysOf(v) == {RecordOf(v)[i].key : i \in 1..Len(RecordOf(v))}

RECURSIVE FirstSeen(_, _)

\* the field names of the samples from sample n on, each at its first
\* appearance, without the names in seen
FirstSeen(records, seen) ==
    IF records = <<>> THEN <<>>
    ELSE IF Head(records) = <<>> THEN FirstSeen(Tail(records), seen)
    ELSE LET key == Head(Head(records)).key
             rest == <<Tail(Head(records))>> \o Tail(records)
         IN  IF key \in seen THEN FirstSeen(rest, seen)
             ELSE <<key>> \o FirstSeen(rest, seen \cup {key})

\* the samples are records that are traced as a struct
StructRun ==
    /\ trace.root = "serialize_seq" /\ trace.samples # <<>>
    /\ \/ \A i \in 1..Len(trace.samples) : trace.samples[i].k = "serialize_struct"
       \/ /\ trace.options.map_as_struct
          /\ \A i \in 1..Len(trace.samples) : trace.samples[i] \in MapSamples

IsOptional(v) == v.k \in {"serialize_none", "serialize_some"}

\* C25: struct samples are unified by field name.  The traced Struct has one
\* child per distinct field name, in the order of first appearance; a field
\* that is in every sample with a value that is no option is not nullable, a
\* field that is missing from a sample (also one first seen after the first
\* sample) is nullable.  The fields not seen are marked at the end of every
\* record, also for maps that are traced as structs.
C25_StructsByFieldName ==
    /\ (StructRun /\ trace.phase = "field") =>
           LET records == [i \in 1..Len(trace.samples) |-> RecordOf(trace.samples[i])]
               names == FirstSeen(records, {})
               children == trace.field.children
           IN  /\ trace.field.data_type = "Struct"
               /\ [i \in 1..Len(children) |-> children[i].name] = names
               /\ \A c \in 1..Len(children) :
                      /\ (\A i \in 1..Len(records) :
                             \E j \in 1..Len(records[i]) :
                                 /\ records[i][j].key = children[c].name
                                 /\ ~IsOptional(records[i][j].v)) => ~children[c].nullable
                      /\ (\E i \in 1..Len(records) :
                             children[c].name \notin KeysOf(trace.samples[i])) =>
                             children[c].nullable
    /\ (StructRun /\ trace.phase = "seq" /\ trace.applied # <<>>) =>
           LET last == trace.samples[Len(trace.applied)]
               fields == trace.tracer.fields
           IN  /\ trace.tracer.seen_samples = Len(trace.applied)
               /\ \A f \in 1..Len(fields) :
                      fields[f].name \notin KeysOf(last) => fields[f].tracer.nullable

\* maps {a, b}, {b}, {b, a} were traced as a struct with a nullable and b not
C25_Witness ==
    /\ StructRun /\ trace.phase = "field" /\ Len(trace.samples) = 3
    /\ trace.samples[1].k = "serialize_map"
    /\ KeysOf(trace.samples[1]) = {"a", "b"} /\ KeysOf(trace.samples[2]) = {"b"}
    /\ Len(trace.field.children) = 2
    /\ trace.field.children[1].name = "a" /\ trace.field.children[1].nullable
    /\ trace.field.children[2].name = "b" /\ ~trace.field.children[2].nullable

RECURSIVE Merge(_, _, _, _)

\* the tracer t after the first n of values were observed on it
Merge(t, values, n, options) ==
    IF n = 0 THEN t
    ELSE TracerSerialize(Merge(t, values, n - 1, options), values[n], options).t

\* the samples are tuples or tuple structs
TupleRun ==
    /\ trace.root = "serialize_seq" /\ trace.samples # <<>>
    /\ \A i \in 1..Len(trace.samples) :
           trace.samples[i].k \in {"serialize_tuple", "serialize_tuple_struct"}

ListRun ==
    /\ trace.root = "serialize_seq"
    /\ \A i \in 1..Len(trace.samples) : trace.samples[i] \in ListSamples
    /\ \E i \in 1..Len(trace.samples) : trace.samples[i].k = "serialize_seq"

RECURSIVE AllItems(_)

\* the elements of all the sampled sequences, in order
AllItems(samples) ==
    IF samples = <<>> THEN <<>>
    ELSE (IF Head(samples).k = "serialize_seq" THEN Head(samples).items ELSE <<>>)
         \o AllItems(Tail(samples))

StringRun ==
    /\ trace.root = "serialize_seq" /\ trace.samples # <<>>
    /\ \A i \in 1..Len(trace.samples) : trace.samples[i].k = "serialize_str"

\* the class of a string: a naive datetime, a UTC datetime, or another string
ClassOf(s) ==
    IF matches_naive_datetime(s) THEN "naive"
    ELSE IF matches_utc_datetime(s) THEN "utc"
    ELSE "other"

\* C28: with guess_dates, string samples that all match the naive datetime
\* grammar are observed as Date64 with NaiveStrAsDate64, strings that all match
\* the UTC grammar (a trailing Z or +00:00) as Date64 with UtcStrAsDate64, other
\* strings as LargeUtf8; strings of different classes on one node end as
\* LargeUtf8 and are no error.  Without guess_dates every string is LargeUtf8.
C28_DateGuessing ==
    StringRun =>
        LET classes == {ClassOf(trace.samples[i].s) : i \in 1..Len(trace.samples)}
        IN  /\ trace.phase # "failed"
            /\ trace.phase = "field" =>
                   /\ ~trace.options.guess_dates =>
                          trace.field = PrimitiveField("LargeUtf8", FALSE)
                   /\ (trace.options.guess_dates /\ classes = {"naive"}) =>
                          /\ trace.field.data_type = "Date64"
                          /\ trace.field.strategy = "NaiveStrAsDate64"
                   /\ (trace.options.guess_dates /\ classes = {"utc"}) =>
                          /\ trace.field.data_type = "Date64"
                          /\ trace.field.strategy = "UtcStrAsDate64"
                   /\ (trace.options.guess_dates /\ classes # {"naive"} /\ classes # {"utc"}) =>
                          trace.field = PrimitiveField("LargeUtf8", FALSE)

\* a naive datetime, then a UTC datetime, were traced as LargeUtf8 with
\* guess_dates
C28_Witness ==
    /\ StringRun /\ trace.phase = "field" /\ trace.options.guess_dates
    /\ Len(trace.samples) = 2
    /\ ClassOf(trace.samples[1].s) = "naive" /\ ClassOf(trace.samples[2].s) = "utc"
    /\ trace.field = PrimitiveField("LargeUtf8", FALSE)

RECURSIVE UnknownPaths(_), NullWhereUnknown(_, _)

\* the paths of the nodes of t that are still Unknown
UnknownPaths(t) ==
    (IF t.kind = "Unknown" THEN {t.path} ELSE {})
    \cup UNION {UnknownPaths(TracerChildren(t)[i]) : i \in 1..Len(TracerChildren(t))}

\* the field f made from t is Null at every node where t is Unknown
NullWhereUnknown(t, f) ==
    /\ t.kind = "Unknown" => (f.data_type = "Null" /\ f.nullable)
    /\ Len(f.children) = Len(TracerChildren(t))
    /\ \A i \in 1..Len(f.children) : NullWhereUnknown(TracerChildren(t)[i], f.children[i])

\* C30: without allow_null_fields a trace that ends with a node still Unknown
\* fails, and the error names the path of an Unknown node and the tracer type
\* Unknown; no field is made of it.  With allow_null_fields the trace does not
\* fail for it and the node becomes a Null field.
C30_UnknownNodeAtFinish ==
    /\ (trace.finished /\ ~trace.options.allow_null_fields
            /\ UnknownPaths(trace.tracer) # {}) =>
           /\ trace.phase = "failed"
           /\ trace.err.msg = NullOnlyOrUnknown
           /\ trace.err.tracer_type = "Unknown"
           /\ trace.err.path \in UnknownPaths(trace.tracer)
           /\ trace.field = NoField
    /\ (trace.finished /\ ~trace.options.allow_null_fields
            /\ UnknownPaths(trace.tracer) = {}) => trace.phase # "failed"
    /\ (trace.finished /\ trace.options.allow_null_fields) =>
           /\ trace.phase # "failed"
           /\ trace.phase = "field" => NullWhereUnknown(trace.tracer, trace.field)

\* [{item: []}] without allow_null_fields failed at "$.item.element"
C30_Witness ==
    /\ trace.phase = "failed" /\ trace.finished
    /\ ~trace.options.allow_null_fields
    /\ trace.samples = <<StructValue(<<Entry("item", SeqValue(<<>>))>>)>>
    /\ trace.err.path = <<"$", "item", "element">>
    /\ trace.err.tracer_type = "Unknown"

(***************************************************************************)
(* Properties of MutableBitBuffer's reservation, as_bool and clear         *)
(* (SpecBits).                                                             *)
(***************************************************************************)
\* the last call was a push that found len == capacity
PushGrew == bitCall.op = "push" /\ bitCall.len = bitCall.capacity

\* the statement of C32 as the specification has it: a push that finds
\* len == capacity grows the capacity by 64 bits, 8 zero bytes
C32_ReservesSixtyFourBits ==
    PushGrew =>
        /\ bits.capacity = bitCall.capacity + 64
        /\ Len(bits.buffer) = bitCall.bytes + 8

\* C32: a push that finds len == capacity grows the buffer by 64 zero bytes
\* and the capacity by 8 * 64 = 512 bits before it writes its bit; any other
\* push leaves the capacity and the number of bytes as they were.
C32_ReservesSixtyFourBytes ==
    /\ PushGrew =>
           /\ bits.capacity = bitCall.capacity + 64 * 8
           /\ Len(bits.buffer) = bitCall.bytes + 64
           /\ bits.buffer[bitCall.bytes + 1] = (IF bitCall.v[1] THEN 1 ELSE 0)
           /\ \A i \in (bitCall.bytes + 2)..Len(bits.buffer) : bits.buffer[i] = 0
    /\ (bitCall.op = "push" /\ bitCall.len # bitCall.capacity) =>
           /\ bitCall.len < bitCall.capacity
           /\ bits.capacity = bitCall.capacity
           /\ Len(bits.buffer) = bitCall.bytes

\* the 513th push found the first reservation full and made the second
C32_Witness ==
    /\ PushGrew /\ bitCall.len = 512
    /\ bits.capacity = 1024 /\ Len(bits.buffer) = 128 /\ bits.len = 513

\* C34: as_bool() returns the pushed booleans b_0 .. b_{k-1}, in order, for
\* every k, also for k > 8 where bits are in the second and later bytes.
C34_AsBoolInvertsPush ==
    bitCall.op = "as_bool" => (bitCall.kind = "Ok" /\ bitCall.v = pushed)

\* C35: in every state capacity == 8 * buffer.len(), len <= capacity and
\* every bit at a position >= len is 0; after clear() the buffer is the empty
\* default: len 0, capacity 0, no bytes.
C35_BitBufferInvariant ==
    /\ bits.capacity = 8 * Len(bits.buffer)
    /\ bits.len <= bits.capacity
    /\ \A i \in bits.len..(bits.capacity - 1) :
           ~TestBit(bits.buffer[(i \div 8) + 1], i % 8)
    /\ bitCall.op = "clear" =>
           (bits.len = 0 /\ bits.capacity = 0 /\ bits.buffer = <<>>)

\* a buffer in its second reservation, with bits set, was cleared
C35_Witness ==
    /\ bitCall.op = "clear" /\ bitCall.len > 512 /\ bitCall.capacity = 1024
    /\ bits = BitBufferDefault

(***************************************************************************)
(* Overflow of MutableOffsetBuffer<i32> (SpecOffsets).                     *)
(***************************************************************************)
\* the last call added a count to current_items that takes it past i32::MAX
\* (or a count that is no i32 at all)
CountBeyondOffsetType ==
    /\ offCall.op \in {"push", "inc_current_items"}
    /\ offCall.n.big \/ offCall.items + offCall.n.v > I32Max

\* C36: no wrapped-around offset is ever stored; a push(n) or
\* inc_current_items() that would take the cumulative count past the maximum
\* of the offset type returns an error and leaves offsets and current_items
\* as they were.
C36_OverflowIsAnError ==
    /\ \A i \in 1..Len(offs.offsets) : offs.offsets[i] >= 0
    /\ offs.current_items >= 0
    /\ CountBeyondOffsetType =>
           /\ offCall.kind = "Err"
           /\ offs.current_items = offCall.items
           /\ Len(offs.offsets) = offCall.count

(***************************************************************************)
(* push_validity on a builder without validity buffer (SpecValidity).      *)
(***************************************************************************)
\* C37: on a non-nullable builder (no validity buffer) push_validity(false)
\* fails with "cannot push null for non-nullable array", push_validity(true)
\* succeeds, push_validity_default never fails, and none of them changes the
\* state: the validity buffer stays absent.
C37_PushValidityNonNullable ==
    ~vcalls.nullable =>
        /\ vcalls.validity = NoBitBuffer
        /\ (vcalls.last.op = "push_validity" /\ ~vcalls.last.value) =>
               (~vcalls.ok /\ vcalls.msg = CannotPushNull)
        /\ (vcalls.last.op = "push_validity" /\ vcalls.last.value) =>
               (vcalls.ok /\ vcalls.msg = "")
        /\ vcalls.last.op = "push_validity_default" => (vcalls.ok /\ vcalls.msg = "")

\* after calls that succeeded, push_validity(false) failed on a builder
\* without validity buffer
C37_Witness ==
    /\ ~vcalls.nullable /\ ~vcalls.done
    /\ vcalls.calls = 3 /\ Len(vcalls.hist) = 2
    /\ vcalls.last = [op |-> "push_validity", value |-> FALSE]
    /\ ~vcalls.ok /\ vcalls.msg = CannotPushNull
    /\ vcalls.validity = NoBitBuffer

(***************************************************************************)
(* UTC or naive: what decides it (SpecCtor).                               *)
(***************************************************************************)
DateStrategies == {"", "NaiveStrAsDate64", "UtcStrAsDate64"}

\* C38: for a timestamp view the timezone alone decides between UTC and naive
\* ("utc" in any case gives UTC, no timezone gives naive): without a strategy,
\* with NaiveStrAsDate64 and with UtcStrAsDate64 the same view gives the same
\* deserializer.  For a Date64 view the strategy alone decides: none and
\* UtcStrAsDate64 give UTC, NaiveStrAsDate64 gives naive.
C38_UtcByTimezoneOrStrategy ==
    /\ (ctor.done /\ ctor.view.kind = "Timestamp" /\ ctor.strategy \in DateStrategies) =>
           /\ \A s \in DateStrategies :
                  ArrayDeserializerNew(<<"$">>, s, ctor.view) = ctor.res
           /\ ctor.view.timezone.tz \in UtcSpellings /\ ctor.view.timezone.some =>
                  (ctor.res.ok /\ ctor.res.d.is_utc)
           /\ ~ctor.view.timezone.some => (ctor.res.ok /\ ~ctor.res.d.is_utc)
    /\ (ctor.done /\ ctor.view.kind = "Date64" /\ ctor.strategy \in DateStrategies) =>
           /\ ctor.res.ok
           /\ ctor.res.d.is_utc <=> ctor.strategy \in {"", "UtcStrAsDate64"}

\* a timestamp view with timezone "UTC" under NaiveStrAsDate64 is UTC
C38_Witness ==
    /\ ctor.done /\ ctor.view.kind = "Timestamp"
    /\ ctor.view.timezone = SomeTimezone(<<"U", "T", "C">>)
    /\ ctor.strategy = "NaiveStrAsDate64"
    /\ ctor.res.ok /\ ctor.res.d.is_utc

(***************************************************************************)
(* The three kinds of sequence events of FixedSizeListBuilder (SpecFsl).   *)
(***************************************************************************)
StartEvents == {StartEvent(flavour) : flavour \in Flavours}
ElementEvents == {ElementEvent(flavour) : flavour \in Flavours}

\* C39: the start, element and end events of seq, tuple and tuple struct do
\* the same to the builder; every start sets the element count of the row to 0,
\* whatever an earlier failed or abandoned row left in it; an element event
\* counts the element and hands it to the child also when n elements were
\* already received, and what it returns is what the child returns: a row with
\* too many elements is reported by the end event only.
C39_SequenceKindsAlike ==
    /\ fsl.op \in StartEvents =>
           /\ \A f \in Flavours :
                  LET r == FslSerializeStart(fsl.before, f)
                  IN  r.b = fsl.b /\ r.ok = fsl.res.ok
           /\ fsl.b.current_count = 0
    /\ fsl.op \in ElementEvents =>
           \E value \in Elements(TRUE) :
               LET e == IntSerialize(fsl.before.element, value)
               IN  /\ \A f \in Flavours :
                          LET r == FslSerializeElement(fsl.before, f, value)
                          IN  r.b = fsl.b /\ r.ok = fsl.res.ok
                   /\ fsl.b.current_count = fsl.before.current_count + 1
                   /\ fsl.b.element = e.c
                   /\ fsl.res.ok = e.ok
                   /\ fsl.res.err.text # InvalidNumberOfElements
    /\ fsl.op \in EndEvents =>
           /\ \A f \in Flavours :
                  LET r == FslSerializeEnd(fsl.before, f)
                  IN  r.b = fsl.b /\ r.ok = fsl.res.ok
           /\ fsl.elems > fsl.b.n =>
                  (~fsl.res.ok /\ fsl.res.err.text = InvalidNumberOfElements)
    /\ fsl.open # "" => fsl.b.current_count = fsl.elems

\* a row of one element was abandoned, and the next row, of stride 1, has
\* taken its second element
C39_Witness ==
    /\ fsl.b.n = 1 /\ fsl.abandoned
    /\ fsl.op = "serialize_tuple_struct_field"
    /\ fsl.elems = 2 /\ fsl.b.current_count = 2
    /\ fsl.res.ok
    /\ Len(fsl.b.element.values) = 3

(***************************************************************************)
(* The key / value protocol of a traced map (SpecTrace).                   *)
(***************************************************************************)
\* the samples are maps given by their serialize_key / serialize_value calls
ProtocolRun ==
    /\ trace.root = "serialize_seq" /\ trace.samples # <<>>
    /\ \A i \in 1..Len(trace.samples) : trace.samples[i] \in MapProtocolSamples

\* the calls of a map that break the protocol: a key that is no string, a
\* value that does not follow a key
BadEvents(events) ==
    {j \in 1..Len(events) :
        \/ events[j].e = "serialize_key" /\ events[j].v.k # "serialize_str"
        \/ events[j].e = "serialize_value" /\ (j = 1 \/ events[j - 1].e # "serialize_key")}

RECURSIVE Consumed(_, _)

\* the (field name, value) pairs of the calls from j on: every value with the
\* key that was given right before it
Consumed(events, j) ==
    IF j > Len(events) THEN <<>>
    ELSE (IF j > 1 /\ events[j].e = "serialize_value" /\ events[j - 1].e = "serialize_key"
          THEN <<Entry(SerializeToString(events[j - 1].v).key, events[j].v)>>
          ELSE <<>>) \o Consumed(events, j + 1)

RECURSIVE EventValues(_, _, _)

\* the values of the calls of kind e of the samples, in order
EventValues(samples, n, e) ==
    IF n = 0 THEN <<>>
    ELSE EventValues(samples, n - 1, e)
         \o [i \in 1..Len(SelectSeq(samples[n].events, LAMBDA ev : ev.e = e)) |->
                SelectSeq(samples[n].events, LAMBDA ev : ev.e = e)[i].v]

\* C40: with map_as_struct a map is traced by a key / value protocol: a key
\* must serialize as a string, any other key fails with "cannot interpret key
\* as string"; a value takes the pending key as the name of its field and
\* leaves none pending, so that a value without a pending key (the first call,
\* or a second value after one key) fails with "invalid operations"; the end
\* of the map is the end of a struct record.  Only a key that a value takes
\* names a field: a key that is followed by another key, or by the end of the
\* map, is dropped.  Without map_as_struct all keys are merged into the key
\* tracer and all values into the value tracer.
C40_MapKeyValueProtocol ==
    LET n == Len(trace.applied)
        last == trace.samples[n].events
        bad == BadEvents(last)
        first == CHOOSE j \in bad : \A k \in bad : j <= k
        records == [i \in 1..n |-> Consumed(trace.samples[i].events, 1)]
        fresh == ensure_map(TracerNew("$", <<"$">>)).t
    IN  /\ (ProtocolRun /\ trace.options.map_as_struct /\ n > 0 /\ ~trace.finished) =>
               IF bad # {}
               THEN /\ trace.phase = "failed"
                    /\ trace.err.msg = IF last[first].e = "serialize_key"
                                       THEN KeyNotString ELSE InvalidOperations
               ELSE /\ trace.phase = "seq"
                    /\ trace.tracer.kind = "Struct" /\ trace.tracer.mode = "Map"
                    /\ trace.tracer.seen_samples = n
                    /\ [c \in 1..Len(trace.tracer.fields) |-> trace.tracer.fields[c].name]
                           = FirstSeen(records, {})
                    /\ \A c \in 1..Len(trace.tracer.fields) :
                           (\A e \in 1..Len(records[n]) :
                                records[n][e].key # trace.tracer.fields[c].name)
                               => trace.tracer.fields[c].tracer.nullable
        /\ (ProtocolRun /\ ~trace.options.map_as_struct) =>
               /\ trace.err.msg \notin {KeyNotString, InvalidOperations}
               /\ (n > 0 /\ trace.phase = "seq") =>
                      /\ trace.tracer.kind = "Map"
                      /\ trace.tracer.key_tracer =
                             Merge(fresh.key_tracer,
                                   EventValues(trace.samples, n, "serialize_key"),
                                   Len(EventValues(trace.samples, n, "serialize_key")),
                                   trace.options)
                      /\ trace.tracer.value_tracer =
                             Merge(fresh.value_tracer,
                                   EventValues(trace.samples, n, "serialize_value"),
                                   Len(EventValues(trace.samples, n, "serialize_value")),
                                   trace.options)

\* after an entry {a: 1}, a map that gives one key and then two values failed
\* at its second value
C40_Witness ==
    /\ ProtocolRun /\ trace.options.map_as_struct
    /\ Len(trace.samples) = 2 /\ Len(trace.applied) = 2
    /\ trace.samples[1] = MapValue(<<Entry(StrValue(<<"a">>), U32)>>)
    /\ trace.samples[2] =
           MapOfEvents(<<KeyEvent(StrValue(<<"a">>)), ValueEvent(U32), ValueEvent(U32)>>)
    /\ trace.phase = "failed" /\ trace.err.msg = InvalidOperations
\* C33: every deserialize_* event and annotate on the top-level
\* ArrayDeserializer gives the result, and leaves the deserializer, that the
\* same event gives when it is called on the wrapped deserializer of the active
\* variant directly, and no other deserializer receives it; every variant of
\* the enum, the 16 dictionary variants among them, has exactly one arm in the
\* dispatch.
C33_DispatchForwards ==
    /\ Len(DispatchArms) = Len(Variants)
    /\ \A i \in 1..Len(Variants) :
           Cardinality({j \in 1..Len(DispatchArms) : DispatchArms[j] = Variants[i]}) = 1
    /\ Cardinality({Variants[i] : i \in {j \in 1..Len(Variants) :
                       \E arm \in DOMAIN DictionaryVariant :
                           DictionaryVariant[arm] = Variants[j]}}) = 16
    /\ disp.method # "" =>
           LET direct == DeserializerCall(VariantOf(disp.before.d), disp.before, disp.method)
           IN  /\ disp.res = direct.res
               /\ disp.obj = direct.obj
               /\ \A i \in 1..Len(disp.obj.events) :
                      disp.obj.events[i].by = VariantOf(disp.obj.d)

C33_Witness ==
    /\ disp.method = "deserialize_string"
    /\ VariantOf(disp.before.d) = "DictionaryU64I64"
    /\ disp.before.events = <<>>
    /\ disp.obj.events = <<[by |-> "DictionaryU64I64", method |-> "deserialize_string"]>>
    /\ disp.res.by = "DictionaryU64I64"

\* the samples are variants of an enum
UnionRun ==
    /\ trace.root = "serialize_seq" /\ trace.samples # <<>>
    /\ \A i \in 1..Len(trace.samples) : trace.samples[i] \in VariantSamples

\* what a variant hands to the tracer of its slot: unit for a unit variant,
\* the value, the record or the tuple it holds for the others
HeldBy(v) ==
    CASE v.k = "serialize_unit_variant" -> Scalar("serialize_unit")
      [] v.k = "serialize_newtype_variant" -> v.v
      [] v.k = "serialize_struct_variant" -> StructValue(v.fields)
      [] OTHER -> TupleValue("serialize_tuple", v.items)

RECURSIVE HeldAt(_, _, _)

\* what the first n samples hand to the slot of index idx, in order
HeldAt(samples, n, idx) ==
    IF n = 0 THEN <<>>
    ELSE HeldAt(samples, n - 1, idx)
         \o (IF samples[n].index = idx THEN <<HeldBy(samples[n])>> ELSE <<>>)

\* sample i names the variant of its index differently than a sample before it
NamesDiffer(samples, i) ==
    \E j \in 1..i - 1 :
        samples[j].index = samples[i].index /\ samples[j].name # samples[i].name

\* C31: enum samples are traced into a Union whose slot i holds the variant
\* observed with index i: the first variant observed with index i names the
\* slot, a later one of the same name succeeds, one of a different name is a
\* conflict error raised by the union tracer; the tracer of the slot is what
\* the variants of index i give in order, Null for a unit variant and what the
\* variant holds for a newtype, struct or tuple variant; a slot whose index
\* was never observed is empty.
C31_UnionVariantSlots ==
    UnionRun =>
        LET n == Len(trace.applied)
            samples == trace.samples
        IN  /\ (trace.phase = "seq" /\ n >= 1) =>
                   /\ trace.tracer.kind = "Union"
                   /\ \A i \in 1..n : ~NamesDiffer(samples, i)
                   /\ \A idx \in 0..2 :
                          LET held == HeldAt(samples, n, idx)
                              first == CHOOSE i \in 1..n :
                                           /\ samples[i].index = idx
                                           /\ \A j \in 1..i - 1 : samples[j].index # idx
                              slots == trace.tracer.variants
                          IN  IF held = <<>>
                              THEN idx + 1 <= Len(slots) => ~slots[idx + 1].some
                              ELSE /\ idx + 1 <= Len(slots)
                                   /\ slots[idx + 1].some
                                   /\ slots[idx + 1].name = samples[first].name
                                   /\ slots[idx + 1].tracer =
                                          Merge(TracerNew(samples[first].name,
                                                          <<"$", samples[first].name>>),
                                                held, Len(held), trace.options)
            /\ (trace.phase = "failed" /\ ~trace.finished /\ n >= 1) =>
                   /\ NamesDiffer(samples, n) =>
                          /\ trace.err.msg = VariantConflict
                          /\ trace.err.path = <<"$">>
                          /\ trace.err.tracer_type = "Union"
                   /\ trace.err.msg = VariantConflict => NamesDiffer(samples, n)

C31_Witness ==
    /\ trace.samples = <<NewtypeVariant(0, "A", U32), UnitVariant(0, "A"), UnitVariant(0, "B")>>
    /\ trace.phase = "failed"
    /\ Len(trace.applied) = 3
    /\ trace.err.msg = VariantConflict
    /\ Replay(trace.samples, 2, trace.options).variants =
           <<SomeVariant("A", [kind |-> "Primitive", name |-> "A", path |-> <<"$", "A">>,
                               nullable |-> TRUE, item_type |-> "UInt32",
                               strategy |-> ""])>>

====
